---- MODULE Spec2Model ----
(***************************************************************************)
(* A model of the event loop of src/event_loop/event_loop.py: Timer,       *)
(* TimerManager and EventLoop.  Times are integers; the clock is the       *)
(* injected _time_function of the tests.                                   *)
(***************************************************************************)
EXTENDS Integers, Sequences, FiniteSets, TLC

\* ------------------------------------------------------------------ bounds
\* Latest clock value the model explores.
MaxTime == 5
\* Descriptors the loop can watch: 1..MaxFds.
MaxFds == 2
\* Most bytes a test writes to a pipe for one reader, and the max_block_size
\* the readers are given (tests.py: 3 and 5; smaller than the stream, so that
\* a read can leave bytes in the pipe).
MaxStream == 3
MaxBlock == 2
\* Most reads at the end of the pipe (each returns no byte).
MaxEofReads == 1
\* Most fragments a callback pushes back in one invocation.
MaxPushes == 2
\* Most packets a test writes, most noise bytes before a packet and most
\* bytes of a payload.
MaxPackets == 2
MaxNoise == 2
MaxPayload == 2
\* Most bytes written to the pipe of a PacketReader byte by byte.
MaxRaw == 6
\* Largest timer interval drawn as an input.
MaxInterval == 2
\* Timeout of the timer a callback adds, and most Timer objects there are
\* when callbacks add timers.
AddedTimeout == 1
MaxCreated == 3
\* Most Timer objects a TimerManager specification creates.
MaxTimers == 2
\* Duration of a slow callback (tests.py loose_time adds 11; any d > 0 will do).
SlowBy == 2

\* Latest clock value and largest interval of the specification that drives a
\* manager the way tests.py test_many and test_contsant_sleep do.
Horizon == 12
ManyMaxInterval == 4

\* --------------------------------------------------------------- encodings
\* Timer._expiry = None (cancelled, or fired and not repeating).  Clock values
\* and therefore expiries are >= 0, so -1 is no expiry.
None == -1
\* decimal.Decimal('Infinity'): greater than every finite duration of the model.
Infinity == 1000000

\* What a timer's callback does when it is invoked (the callback is an input
\* of the program; these are the behaviours the sources and tests use).
\*   count  : tests.py MockCallback, only counts its calls
\*   reset  : calls reset() on its own Timer
\*   cancel : calls cancel() on its own Timer
\*   slow   : tests.py loose_time, advances the clock by SlowBy
TimerCallbacks == {"count", "reset", "cancel", "slow"}
\*   stop   : event_loop.py timeout(), calls loop.stop(); it has a meaning
\*            only while the loop runs
LoopTimerCallbacks == TimerCallbacks \cup {"stop"}
\*   raise  : a callback that fails with an exception
RaisingTimerCallbacks == LoopTimerCallbacks \cup {"raise"}
\* Callbacks that act on the manager's other timers: one cancels every other
\* timer, one adds a timer.
CancellingTimerCallbacks == {"count", "cancel", "cancel_others"}
AddingTimerCallbacks == {"count", "reset", "cancel", "add"}

\* What a descriptor's callback does when its descriptor is ready.
\*   read : takes the descriptor and consumes what is readable
\*   stop : tests.py incoming(), which also calls loop.stop()
ReaderCallbacks == {"read", "stop"}
\*   raise : a callback that fails with an exception
RaisingReaderCallbacks == ReaderCallbacks \cup {"raise"}
\*   rewatch : calls loop.watch_for_reading(fd)(late) for every other
\*             descriptor
\*   late    : the callback which rewatch registers; it notes its calls
RewatchingReaderCallbacks == ReaderCallbacks \cup {"rewatch"}

\* No pipe: nothing written, nothing registered.  The fields are those of the
\* framing readers' closures and objects, followed by what a test observes.
\*   fd, pipe, closed       : os.pipe(): the read end's descriptor, the bytes
\*                            written and not yet read, the write end closed
\*   max_block_size         : the argument of the reader registered
\*   pushed_back            : push_back_reader's list of fragments
\*   partial_line_fragments : line_reader's list of fragments
\*   in_packet              : PacketReader.in_packet
\*   will_push              : what the callback of a push_back_reader pushes
\*                            back at its next invocation: each the data it
\*                            is given (all) or the bytes named
\*   pushed                 : the fragments it pushed back at its last one
\*   registered             : the callback registered last for fd
\*   replaced               : the callback which that registration replaced
\*   filelike               : whether it was given an object with fileno()
\*   eofs                   : the reads so far that returned no byte
\*   read                   : the bytes read since that registration
\*   delivered              : the callback's invocations since then, in order
\*   dropped                : the counts logging.info() reported since then
\*   outbox, sent           : a writer's bytes still to write, and the
\*                            packets it has queued: the payload, the number
\*                            of noise bytes queued before its delimiter, and
\*                            the number of bytes queued up to its end
NoIO ==
    [fd |-> 0, pipe |-> <<>>, closed |-> FALSE, max_block_size |-> 0,
     pushed_back |-> <<>>, partial_line_fragments |-> <<>>,
     in_packet |-> FALSE, will_push |-> <<>>, pushed |-> <<>>,
     registered |-> "",
     replaced |-> "", filelike |-> FALSE, eofs |-> 0,
     read |-> <<>>, delivered |-> <<>>, dropped |-> <<>>,
     outbox |-> <<>>, sent |-> <<>>]

VARIABLES
    now,        \* the clock, _time_function()
    timers,     \* every Timer object created so far, by identity (index)
    tracked,    \* TimerManager._timers: identities, in list order
    running,    \* EventLoop._running
    readers,    \* EventLoop._readers: descriptor -> callback kind
    pc,         \* position of EventLoop.run()
    ready,      \* descriptors the last wait reported ready, in reported order
    log,        \* callbacks invoked by the last operation, in order
    last,       \* the last operation and what it returned
    history,    \* whether the timers' history fields are recorded
    io          \* the pipe a test writes to and the state of the framing
                \* reader registered for its read end

vars ==
    <<now, timers, tracked, running, readers, pc, ready, log, last, history,
      io>>

Max(a, b) == IF a >= b THEN a ELSE b

\* The mutable objects an operation (and the callbacks it invokes) can touch;
\* exc is the exception in flight, "" when there is none.
World ==
    [now |-> now, timers |-> timers, tracked |-> tracked,
     running |-> running, readers |-> readers, log |-> log,
     history |-> history, io |-> io, exc |-> ""]

\* Three fields of a timer record are history, which no operation reads:
\* calls (the callback's invocations so far, MockCallback.nb_calls), t0 (the
\* moment of the last arming) and hist (whether reset() or cancel() was
\* called last since the creation; "fresh": neither).  They are recorded by
\* the specifications whose statements read them (history = TRUE).
Note(w, i, t0, hist) ==
    IF w.history
    THEN [w EXCEPT !.timers[i].t0 = t0, !.timers[i].hist = hist]
    ELSE w

\* A reset that keeps to the earlier schedule of a timer that is still armed.
Timer_reset_from_schedule(w, i) ==
    Note([w EXCEPT !.timers[i].expiry =
                       IF @ = None THEN w.now + w.timers[i].interval
                       ELSE @ + w.timers[i].interval],
         i, w.now, "reset")

\* A reset that also puts the timer back among those its manager tracks.
Timer_reset_retracks(w, i) ==
    LET w1 == Note([w EXCEPT !.timers[i].expiry = w.now + w.timers[i].interval],
                   i, w.now, "reset")
    IN  IF \E k \in DOMAIN w.tracked : w.tracked[k] = i THEN w1
        ELSE [w1 EXCEPT !.tracked = Append(@, i)]

\* Timer.reset: expiry = now + interval.
Timer_reset(w, i) ==
    Note([w EXCEPT !.timers[i].expiry = w.now + w.timers[i].interval],
         i, w.now, "reset")

\* Timer.cancel
Timer_cancel(w, i) ==
    Note([w EXCEPT !.timers[i].expiry = None],
         i, w.timers[i].t0, "cancelled")

\* EventLoop.stop
EventLoop_stop(w) ==
    [w EXCEPT !.running = FALSE]

\* Timer.__init__ asserting interval >= 0.
Timer_init_accepts_zero(w, callback, interval, repeat) ==
    IF ~(interval >= 0) THEN [w |-> w, err |-> "AssertionError", id |-> 0]
    ELSE LET id == Len(w.timers) + 1
             obj == [callback |-> callback, interval |-> interval,
                     repeat |-> repeat, expiry |-> None, calls |-> 0,
                     t0 |-> 0, hist |-> "fresh"]
             w1 == Timer_reset([w EXCEPT !.timers = Append(@, obj)], id)
         IN  [w |-> Note(w1, id, w.now, "fresh"), err |-> "", id |-> id]

\* Timer.__init__: the assertion, then the fields and reset().
\* [w |-> the world afterwards, err |-> the exception raised or "", id].
Timer_init(w, callback, interval, repeat) ==
    IF ~(interval > 0) THEN [w |-> w, err |-> "AssertionError", id |-> 0]
    ELSE LET id == Len(w.timers) + 1
             obj == [callback |-> callback, interval |-> interval,
                     repeat |-> repeat, expiry |-> None, calls |-> 0,
                     t0 |-> 0, hist |-> "fresh"]
             w1 == Timer_reset([w EXCEPT !.timers = Append(@, obj)], id)
         IN  [w |-> Note(w1, id, w.now, "fresh"), err |-> "", id |-> id]

\* TimerManager.add_timer: a new Timer, appended to _timers unless the
\* constructor raised.
TimerManager_add_timer(w, timeout, callback, repeat) ==
    LET r == Timer_init(w, callback, timeout, repeat) IN
    IF r.err # "" THEN r
    ELSE [r EXCEPT !.w.tracked = Append(@, r.id)]

\* The callback of timer i calling cancel() on every other timer, from timer
\* j on.
RECURSIVE CancelOthers(_, _, _)
CancelOthers(w, i, j) ==
    IF j > Len(w.timers) THEN w
    ELSE CancelOthers(IF j = i THEN w ELSE Timer_cancel(w, j), i, j + 1)

\* The callback of a timer calling manager.add_timer(AddedTimeout, count).
AddFromCallback(w) ==
    TimerManager_add_timer(w, AddedTimeout, "count", FALSE).w

\* Timer.__call__: invoke the callback, which may act on its own timer, on the
\* clock, on the loop or on the manager and its other timers.
Timer_call(w, i) ==
    LET w1 == [w EXCEPT !.timers[i].calls = IF w.history THEN @ + 1 ELSE @,
                        !.log = Append(@, <<"timer", i>>)]
        cb == w.timers[i].callback
    IN  CASE cb = "count"  -> w1
          [] cb = "reset"  -> Timer_reset(w1, i)
          [] cb = "cancel" -> Timer_cancel(w1, i)
          [] cb = "slow"   -> [w1 EXCEPT !.now = @ + SlowBy]
          [] cb = "stop"   -> EventLoop_stop(w1)
          [] cb = "raise"  -> [w1 EXCEPT !.exc = "Exception"]
          [] cb = "cancel_others" -> CancelOthers(w1, i, 1)
          [] cb = "add"    -> AddFromCallback(w1)

\* Timer.run that re-arms a repeating timer from the moment of the check.
Timer_run_drift(w, i) ==
    LET t == w.timers[i] IN
    IF t.expiry = None THEN [w |-> w, ret |-> FALSE]
    ELSE IF w.now < t.expiry THEN [w |-> w, ret |-> TRUE]
    ELSE LET w1 == IF t.repeat
                   THEN [w EXCEPT !.timers[i].expiry = w.now + t.interval]
                   ELSE [w EXCEPT !.timers[i].expiry = None]
             w2 == Timer_call(w1, i)
         IN  [w |-> w2, ret |-> w2.timers[i].expiry # None]

\* Timer.run that leaves a fired non-repeating timer armed.
Timer_run_stays_armed(w, i) ==
    LET t == w.timers[i] IN
    IF t.expiry = None THEN [w |-> w, ret |-> FALSE]
    ELSE IF w.now < t.expiry THEN [w |-> w, ret |-> TRUE]
    ELSE LET times == (w.now - t.expiry) \div t.interval + 1
             w1 == IF t.repeat
                   THEN [w EXCEPT !.timers[i].expiry = @ + times * t.interval]
                   ELSE w
             w2 == Timer_call(w1, i)
         IN  [w |-> w2, ret |-> t.repeat]

\* Timer.run without the test for a cancelled timer (in Python 2 a number
\* compares greater than None, so the comparison with the expiry passes).
Timer_run_no_cancel_test(w, i) ==
    LET t == w.timers[i] IN
    IF t.expiry # None /\ w.now < t.expiry THEN [w |-> w, ret |-> TRUE]
    ELSE LET times == (w.now - t.expiry) \div t.interval + 1
             w1 == IF t.repeat
                   THEN [w EXCEPT !.timers[i].expiry = @ + times * t.interval]
                   ELSE [w EXCEPT !.timers[i].expiry = None]
             w2 == Timer_call(w1, i)
         IN  [w |-> w2, ret |-> w2.timers[i].expiry # None]

\* Timer.run that returns the disposition it computed before the callback.
Timer_run_early_disposition(w, i) ==
    LET t == w.timers[i] IN
    IF t.expiry = None THEN [w |-> w, ret |-> FALSE]
    ELSE IF w.now < t.expiry THEN [w |-> w, ret |-> TRUE]
    ELSE LET times == (w.now - t.expiry) \div t.interval + 1
             w1 == IF t.repeat
                   THEN [w EXCEPT !.timers[i].expiry = @ + times * t.interval]
                   ELSE [w EXCEPT !.timers[i].expiry = None]
             w2 == Timer_call(w1, i)
         IN  [w |-> w2, ret |-> w1.timers[i].expiry # None]

\* Timer.run that fires only once the expiry is past.
Timer_run_strict(w, i) ==
    LET t == w.timers[i] IN
    IF t.expiry = None THEN [w |-> w, ret |-> FALSE]
    ELSE IF w.now <= t.expiry THEN [w |-> w, ret |-> TRUE]
    ELSE LET times == (w.now - t.expiry) \div t.interval + 1
             w1 == IF t.repeat
                   THEN [w EXCEPT !.timers[i].expiry = @ + times * t.interval]
                   ELSE [w EXCEPT !.timers[i].expiry = None]
             w2 == Timer_call(w1, i)
         IN  [w |-> w2, ret |-> w2.timers[i].expiry # None]

\* A run that works out the next expiry from the clock read after the
\* callback returned.
Timer_run_resamples(w, i) ==
    LET t == w.timers[i] IN
    IF t.expiry = None THEN [w |-> w, ret |-> FALSE]
    ELSE IF w.now < t.expiry THEN [w |-> w, ret |-> TRUE]
    ELSE LET w1 == Timer_call(w, i)
             times == (w1.now - t.expiry) \div t.interval + 1
             w2 == IF t.repeat
                   THEN [w1 EXCEPT !.timers[i].expiry = t.expiry + times * t.interval]
                   ELSE [w1 EXCEPT !.timers[i].expiry = None]
         IN  [w |-> w2, ret |-> w2.timers[i].expiry # None]

\* Timer.run: [w |-> the world afterwards, ret |-> the value returned].
Timer_run(w, i) ==
    LET t == w.timers[i] IN
    IF t.expiry = None THEN [w |-> w, ret |-> FALSE]
    ELSE IF w.now < t.expiry THEN [w |-> w, ret |-> TRUE]
    ELSE LET times == (w.now - t.expiry) \div t.interval + 1
             w1 == IF t.repeat
                   THEN [w EXCEPT !.timers[i].expiry = @ + times * t.interval]
                   ELSE [w EXCEPT !.timers[i].expiry = None]
             w2 == Timer_call(w1, i)
         IN  [w |-> w2, ret |-> w2.timers[i].expiry # None]

\* Timer.sleep_time without the max(): negative for an overdue timer.
Timer_sleep_time_signed(w, i) ==
    IF w.timers[i].expiry = None THEN Infinity
    ELSE w.timers[i].expiry - w.now

\* Timer.sleep_time
Timer_sleep_time(w, i) ==
    IF w.timers[i].expiry = None THEN Infinity
    ELSE Max(w.timers[i].expiry - w.now, 0)

Min(a, b) == IF a <= b THEN a ELSE b

\* EventLoop.add_timer(timeout, repeat)(callback)
EventLoop_add_timer(w, timeout, repeat, callback) ==
    TimerManager_add_timer(w, timeout, callback, repeat)

\* A pass over the timers that catches what a callback raises and goes on.
RECURSIVE RunFrom_suppressing(_, _, _)
RunFrom_suppressing(w, k, kept) ==
    IF k > Len(w.tracked) THEN [w EXCEPT !.tracked = kept]
    ELSE LET r == Timer_run(w, w.tracked[k])
         IN  RunFrom_suppressing([r.w EXCEPT !.exc = ""], k + 1,
                                 IF r.ret THEN Append(kept, w.tracked[k])
                                 ELSE kept)

\* The list comprehension of TimerManager.run, from position k of the list
\* it iterates (the list object that add_timer appends to), kept being the
\* timers retained so far.  The new list is assigned when the iteration ends.
\* An exception leaves the comprehension at once, before the assignment.
RECURSIVE RunFrom(_, _, _)
RunFrom(w, k, kept) ==
    IF k > Len(w.tracked) THEN [w EXCEPT !.tracked = kept]
    ELSE LET r == Timer_run(w, w.tracked[k])
         IN  IF r.w.exc # "" THEN r.w
             ELSE RunFrom(r.w, k + 1,
                          IF r.ret THEN Append(kept, w.tracked[k])
                          ELSE kept)

\* A dispatch pass that runs the timers and retains them all.
TimerManager_run_keeps_all(w) ==
    [RunFrom(w, 1, <<>>) EXCEPT !.tracked = w.tracked]

\* A pass over the timers tracked when it starts, from the k-th on.
RECURSIVE RunOver(_, _, _, _)
RunOver(w, snapshot, k, kept) ==
    IF k > Len(snapshot) THEN [w EXCEPT !.tracked = kept]
    ELSE LET r == Timer_run(w, snapshot[k])
         IN  IF r.w.exc # "" THEN r.w
             ELSE RunOver(r.w, snapshot, k + 1,
                          IF r.ret THEN Append(kept, snapshot[k]) ELSE kept)

\* TimerManager.run over a copy of the list of timers.
TimerManager_run_snapshot(w) ==
    RunOver(w, w.tracked, 1, <<>>)

\* TimerManager.run
TimerManager_run(w) ==
    RunFrom(w, 1, <<>>)

\* A sleep_time that looks at the timer added first only.
TimerManager_sleep_time_first_timer(w) ==
    IF w.tracked = <<>> THEN Infinity
    ELSE Timer_sleep_time(w, w.tracked[1])

\* min() over the chain of TimerManager.sleep_time, from position k, m being
\* the least value so far.
RECURSIVE MinFrom(_, _, _)
MinFrom(w, k, m) ==
    IF k > Len(w.tracked) THEN m
    ELSE MinFrom(w, k + 1, Min(m, Timer_sleep_time(w, w.tracked[k])))

\* A sleep_time that answers 0 (nothing to wait for) when no timer is tracked.
TimerManager_sleep_time_zero_when_empty(w) ==
    IF w.tracked = <<>> THEN 0 ELSE MinFrom(w, 1, Infinity)

\* TimerManager.sleep_time: the chain starts with [Infinity].
TimerManager_sleep_time(w) ==
    MinFrom(w, 1, Infinity)

\* What is passed as file_descriptor: an integer n (int = TRUE), or an object
\* whose fileno() is n (tests.py FileLike).
Files == [int : BOOLEAN, n : 1..MaxFds]

\* FileLike.fileno
FileLike_fileno(file) == file.n

\* A registration that keeps the callback a descriptor already has.
EventLoop_watch_for_reading_keeps_first(w, file, callback) ==
    LET fd == IF file.int THEN file.n ELSE FileLike_fileno(file) IN
    [w EXCEPT !.readers =
        [x \in DOMAIN w.readers \cup {fd} |->
            IF x \in DOMAIN w.readers THEN w.readers[x] ELSE callback]]

\* EventLoop.watch_for_reading(file_descriptor)(callback): the descriptor is
\* taken from fileno() unless an integer was given; one callback per
\* descriptor, the last one registered.
EventLoop_watch_for_reading(w, file, callback) ==
    LET fd == IF file.int THEN file.n ELSE FileLike_fileno(file) IN
    [w EXCEPT !.readers =
        [x \in DOMAIN w.readers \cup {fd} |->
            IF x = fd THEN callback ELSE w.readers[x]]]

\* ---------------------------------------------------------- framing readers
\* Strings are sequences of bytes (0..255).
\* ''.join(fragments)
RECURSIVE Join(_)
Join(frags) ==
    IF frags = <<>> THEN <<>> ELSE Head(frags) \o Join(Tail(frags))

\* data.index(pattern) + 1, or 0 for the ValueError.
Index(data, pattern) ==
    LET hits == {p \in 1..(Len(data) - Len(pattern) + 1) :
                    SubSeq(data, p, p + Len(pattern) - 1) = pattern}
    IN  IF hits = {} THEN 0
        ELSE CHOOSE p \in hits : \A q \in hits : p <= q

\* '\n'
Newline == 10

\* PacketReader.PACKET_DELIMITER = '\xf5\x5f'
PACKET_DELIMITER == <<245, 95>>

\* os.read(fd, max_block_size) on the read end of the pipe, which select()
\* reported ready: the bytes available, max_block_size of them at most; no
\* byte at all when the write end is closed and everything was read.
os_read(w, fd, max_block_size) ==
    LET n == Min(Len(w.io.pipe), max_block_size)
        data == SubSeq(w.io.pipe, 1, n)
    IN  [w |-> [w EXCEPT !.io.pipe = SubSeq(@, n + 1, Len(@)),
                         !.io.read = @ \o data],
         data |-> data]

\* sum(counts)
RECURSIVE Sum(_)
Sum(counts) ==
    IF counts = <<>> THEN 0 ELSE Head(counts) + Sum(Tail(counts))

\* The callback a test passes to a reader: it keeps what it is given; logged
\* is the number of bytes reported dropped before the invocation.
Callback_call(w, by, data) ==
    [w EXCEPT !.io.delivered =
        Append(@, [by |-> by, data |-> data, logged |-> Sum(w.io.dropped)])]

\* logging.info('Dropped %i non-packet bytes', n)
logging_info(w, n) ==
    [w EXCEPT !.io.dropped = Append(@, n)]

\* pushed_back.append(fragment)
push_back(w, fragment) ==
    [w EXCEPT !.io.pushed_back = Append(@, fragment)]

\* The callback a test passes to push_back_reader: it keeps the data and
\* pushes back the fragments it chose, in order.
PushBack_callback(w, data) ==
    LET w1 == Callback_call(w, "push_back", data)
        frags == [k \in DOMAIN w.io.will_push |->
                    IF w.io.will_push[k].all THEN data
                    ELSE w.io.will_push[k].bytes]
    IN  [w1 EXCEPT !.io.pushed_back = @ \o frags,
                   !.io.pushed = frags,
                   !.io.will_push = <<>>]

\* The attributes of a PacketReader object (set by __init__; no method sets
\* another).
PacketReader_attributes == {"port", "callback", "in_packet"}

\* A find_packet_delimiter that takes the delimiter's first byte for the
\* delimiter.
PacketReader_find_packet_delimiter_first_byte(w, data) ==
    LET p == Index(data, <<PACKET_DELIMITER[1]>>) IN
    IF data = <<>>
    THEN [w |-> [w EXCEPT !.exc = "AssertionError"], found |-> FALSE,
          rest |-> <<>>]
    ELSE IF p = 0 THEN [w |-> w, found |-> FALSE, rest |-> <<>>]
    ELSE [w |-> IF p - 1 > 0 THEN logging_info(w, p - 1) ELSE w,
          found |-> TRUE,
          rest |-> SubSeq(data, p + Len(PACKET_DELIMITER), Len(data))]

\* PacketReader.find_packet_delimiter:
\* [w, found, rest |-> the data after the delimiter].
PacketReader_find_packet_delimiter(w, data) ==
    LET p == Index(data, PACKET_DELIMITER) IN
    IF data = <<>>
    THEN [w |-> [w EXCEPT !.exc = "AssertionError"], found |-> FALSE,
          rest |-> <<>>]
    ELSE IF p = 0 THEN [w |-> w, found |-> FALSE, rest |-> <<>>]
    ELSE [w |-> IF p - 1 > 0 THEN logging_info(w, p - 1) ELSE w,
          found |-> TRUE,
          rest |-> SubSeq(data, p + Len(PACKET_DELIMITER), Len(data))]

\* A read_packet that takes the length byte for the length of the payload.
PacketReader_read_packet_payload_length(w, data) ==
    LET length == data[1] IN
    IF ~(length >= 0)
    THEN [w |-> [w EXCEPT !.exc = "AssertionError"], complete |-> FALSE,
          rest |-> <<>>]
    ELSE IF Len(data) < length + 1
    THEN [w |-> w, complete |-> FALSE, rest |-> <<>>]
    ELSE [w |-> Callback_call(w, "packet", SubSeq(data, 2, length + 1)),
          complete |-> TRUE,
          rest |-> SubSeq(data, length + 2, Len(data))]

\* A read_packet that takes a length byte of 0 for a byte to skip.
PacketReader_read_packet_skips_zero(w, data) ==
    LET length == data[1] IN
    IF ~(length >= 1)
    THEN [w |-> w, complete |-> TRUE, rest |-> Tail(data)]
    ELSE IF Len(data) < length
    THEN [w |-> w, complete |-> FALSE, rest |-> <<>>]
    ELSE [w |-> Callback_call(w, "packet", SubSeq(data, 2, length)),
          complete |-> TRUE,
          rest |-> SubSeq(data, length + 1, Len(data))]

\* PacketReader.read_packet, data beginning with the length byte:
\* [w, complete, rest |-> the data after the packet].
PacketReader_read_packet(w, data) ==
    LET length == data[1] IN
    IF ~(length >= 1)
    THEN [w |-> [w EXCEPT !.exc = "AssertionError"], complete |-> FALSE,
          rest |-> <<>>]
    ELSE IF Len(data) < length
    THEN [w |-> w, complete |-> FALSE, rest |-> <<>>]
    ELSE [w |-> Callback_call(w, "packet", SubSeq(data, 2, length)),
          complete |-> TRUE,
          rest |-> SubSeq(data, length + 1, Len(data))]

\* A new_block that leaves what follows a packet for its next invocation.
PacketReader_loop_one_packet(w, data) ==
    LET f == IF w.io.in_packet THEN [w |-> w, found |-> TRUE, rest |-> data]
             ELSE PacketReader_find_packet_delimiter(w, data)
        half == data[Len(data)] = PACKET_DELIMITER[1]
        w1 == [f.w EXCEPT !.io.in_packet = TRUE]
        r == PacketReader_read_packet(w1, f.rest)
    IN  IF f.w.exc # "" THEN f.w
        ELSE IF ~f.found
        THEN logging_info(IF half THEN push_back(f.w, <<PACKET_DELIMITER[1]>>)
                          ELSE f.w,
                          IF half THEN Len(data) - 1 ELSE Len(data))
        ELSE IF ~w.io.in_packet /\ f.rest = <<>> THEN w1
        ELSE IF r.w.exc # "" THEN r.w
        ELSE IF ~r.complete THEN push_back(r.w, f.rest)
        ELSE IF r.rest # <<>>
        THEN push_back([r.w EXCEPT !.io.in_packet = FALSE], r.rest)
        ELSE [r.w EXCEPT !.io.in_packet = FALSE]

\* A new_block that drops all the data in which it finds no delimiter.
RECURSIVE PacketReader_loop_drops_half(_, _)
PacketReader_loop_drops_half(w, data) ==
    LET f == IF w.io.in_packet THEN [w |-> w, found |-> TRUE, rest |-> data]
             ELSE PacketReader_find_packet_delimiter(w, data)
        w1 == [f.w EXCEPT !.io.in_packet = TRUE]
        r == PacketReader_read_packet(w1, f.rest)
    IN  IF f.w.exc # "" THEN f.w
        ELSE IF ~f.found THEN logging_info(f.w, Len(data))
        ELSE IF ~w.io.in_packet /\ f.rest = <<>> THEN w1
        ELSE IF r.w.exc # "" THEN r.w
        ELSE IF ~r.complete THEN push_back(r.w, f.rest)
        ELSE IF r.rest # <<>>
        THEN PacketReader_loop_drops_half([r.w EXCEPT !.io.in_packet = FALSE],
                                          r.rest)
        ELSE [r.w EXCEPT !.io.in_packet = FALSE]

\* A new_block that looks for a delimiter in whatever it is given.
RECURSIVE PacketReader_loop_rescans(_, _)
PacketReader_loop_rescans(w, data) ==
    LET f == PacketReader_find_packet_delimiter(w, data)
        half == data[Len(data)] = PACKET_DELIMITER[1]
        w1 == [f.w EXCEPT !.io.in_packet = TRUE]
        r == PacketReader_read_packet(w1, f.rest)
    IN  IF f.w.exc # "" THEN f.w
        ELSE IF ~f.found
        THEN logging_info(IF half THEN push_back(f.w, <<PACKET_DELIMITER[1]>>)
                          ELSE f.w,
                          IF half THEN Len(data) - 1 ELSE Len(data))
        ELSE IF f.rest = <<>> THEN w1
        ELSE IF r.w.exc # "" THEN r.w
        ELSE IF ~r.complete THEN push_back(r.w, data)
        ELSE IF r.rest # <<>>
        THEN PacketReader_loop_rescans([r.w EXCEPT !.io.in_packet = FALSE],
                                       r.rest)
        ELSE [r.w EXCEPT !.io.in_packet = FALSE]

\* The "while 1" of PacketReader.new_block, from the top of an iteration.
RECURSIVE PacketReader_loop(_, _)
PacketReader_loop(w, data) ==
    LET f == IF w.io.in_packet THEN [w |-> w, found |-> TRUE, rest |-> data]
             ELSE PacketReader_find_packet_delimiter(w, data)
        half == data[Len(data)] = PACKET_DELIMITER[1]
        w1 == [f.w EXCEPT !.io.in_packet = TRUE]
        r == PacketReader_read_packet(w1, f.rest)
    IN  IF f.w.exc # "" THEN f.w
        ELSE IF ~f.found
        THEN logging_info(IF half THEN push_back(f.w, <<PACKET_DELIMITER[1]>>)
                          ELSE f.w,
                          IF half THEN Len(data) - 1 ELSE Len(data))
        ELSE IF ~w.io.in_packet /\ f.rest = <<>> THEN w1
        ELSE IF r.w.exc # "" THEN r.w
        ELSE IF ~r.complete THEN push_back(r.w, f.rest)
        ELSE IF r.rest # <<>>
        THEN PacketReader_loop([r.w EXCEPT !.io.in_packet = FALSE], r.rest)
        ELSE [r.w EXCEPT !.io.in_packet = FALSE]

\* PacketReader.new_block(data, push_back)
PacketReader_new_block(w, data) ==
    IF data = <<>> THEN [w EXCEPT !.exc = "AssertionError"]
    ELSE PacketReader_loop(w, data)

\* A reader(data) of line_reader that looks for one newline per block.
line_reader_loop_one_line(w, data) ==
    LET end == Index(data, <<Newline>>) IN
    IF end = 0
    THEN IF data # <<>>
         THEN [w EXCEPT !.io.partial_line_fragments = Append(@, data)]
         ELSE w
    ELSE LET line == Join(Append(w.io.partial_line_fragments,
                                 SubSeq(data, 1, end)))
             rest == SubSeq(data, end + 1, Len(data))
             w1 == [w EXCEPT !.io.partial_line_fragments =
                                IF rest # <<>> THEN <<rest>> ELSE <<>>]
         IN  Callback_call(w1, "line", line)

\* The "while 1" of line_reader's reader(data), then its "if data".
RECURSIVE line_reader_loop(_, _)
line_reader_loop(w, data) ==
    LET end == Index(data, <<Newline>>) IN
    IF end = 0
    THEN IF data # <<>>
         THEN [w EXCEPT !.io.partial_line_fragments = Append(@, data)]
         ELSE w
    ELSE LET line == Join(Append(w.io.partial_line_fragments,
                                 SubSeq(data, 1, end)))
             w1 == [w EXCEPT !.io.partial_line_fragments = <<>>]
         IN  line_reader_loop(Callback_call(w1, "line", line),
                              SubSeq(data, end + 1, Len(data)))

\* A reader(data) of push_back_reader that keeps the list after handing it
\* over.
push_back_reader_keeps(w, callback, data) ==
    LET full == IF w.io.pushed_back # <<>>
                THEN Join(Append(w.io.pushed_back, data))
                ELSE data
    IN  IF callback = "packet" THEN PacketReader_new_block(w, full)
        ELSE PushBack_callback(w, full)

\* reader(data) of push_back_reader: the fragments pushed back, then the
\* new block; callback is new_block of the PacketReader or a test's.
push_back_reader(w, callback, data) ==
    LET full == IF w.io.pushed_back # <<>>
                THEN Join(Append(w.io.pushed_back, data))
                ELSE data
        w1 == [w EXCEPT !.io.pushed_back = <<>>]
    IN  IF callback = "packet" THEN PacketReader_new_block(w1, full)
        ELSE PushBack_callback(w1, full)

\* reader(fd) of block_reader: the block read goes to the callback, which
\* is a test's or the reader(data) of a reader built on block_reader.
block_reader(w, fd, callback) ==
    LET r == os_read(w, fd, w.io.max_block_size) IN
    CASE callback = "block" -> Callback_call(r.w, "block", r.data)
      [] callback = "line"  -> line_reader_loop(r.w, r.data)
      [] callback \in {"push_back", "packet"} ->
            push_back_reader(r.w, callback, r.data)

\* What the callbacks registered through the framing readers are.
FramingCallbacks == {"block", "push_back", "line", "packet"}

\* loop.block_reader(file, max_block_size)(callback), and the readers built
\* on it: push_back_reader with its empty list, line_reader with its empty
\* list, PacketReader.__init__ with in_packet = False.
EventLoop_block_reader(w, file, max_block_size, callback) ==
    LET w1 == EventLoop_watch_for_reading(w, file, callback) IN
    [w1 EXCEPT !.io.max_block_size = max_block_size]

EventLoop_push_back_reader(w, file, max_block_size, callback) ==
    EventLoop_block_reader([w EXCEPT !.io.pushed_back = <<>>],
                           file, max_block_size, callback)

EventLoop_line_reader(w, file, max_block_size, callback) ==
    EventLoop_block_reader([w EXCEPT !.io.partial_line_fragments = <<>>],
                           file, max_block_size, callback)

PacketReader_init(w, file, max_block_size) ==
    EventLoop_push_back_reader([w EXCEPT !.io.in_packet = FALSE],
                               file, max_block_size, "packet")

\* A callback called for fd registering the callback late for every other
\* descriptor, from descriptor x on.
RECURSIVE Rewatch(_, _, _)
Rewatch(w, fd, x) ==
    IF x > MaxFds THEN w
    ELSE Rewatch(IF x = fd THEN w
                 ELSE EventLoop_watch_for_reading(
                          w, [int |-> TRUE, n |-> x], "late"),
                 fd, x + 1)

\* A dispatch that calls the pipe's framing reader for whatever descriptor
\* is ready.
Reader_call_shared_reader(w, fd) ==
    LET w1 == [w EXCEPT !.log = Append(@, <<"fd", fd>>)]
        cb == w.readers[fd]
        shared == IF w.io.fd \in DOMAIN w.readers
                     /\ w.readers[w.io.fd] \in FramingCallbacks
                  THEN w.readers[w.io.fd] ELSE cb
    IN  CASE shared = "read" -> w1
          [] shared = "stop" -> EventLoop_stop(w1)
          [] shared = "raise" -> [w1 EXCEPT !.exc = "Exception"]
          [] shared \in FramingCallbacks -> block_reader(w1, fd, shared)
          [] shared = "rewatch" -> Rewatch(w1, fd, 1)
          [] shared = "late" -> [w1 EXCEPT !.log = Append(@, <<"late", fd>>)]

\* self._readers[fd](fd)
Reader_call(w, fd) ==
    LET w1 == [w EXCEPT !.log = Append(@, <<"fd", fd>>)]
        cb == w.readers[fd]
    IN  CASE cb = "read" -> w1
          [] cb = "stop" -> EventLoop_stop(w1)
          [] cb = "raise" -> [w1 EXCEPT !.exc = "Exception"]
          [] cb \in FramingCallbacks -> block_reader(w1, fd, cb)
          [] cb = "rewatch" -> Rewatch(w1, fd, 1)
          [] cb = "late" -> [w1 EXCEPT !.log = Append(@, <<"late", fd>>)]

\* A loop over the ready descriptors that tests the running flag before each
\* callback.
RECURSIVE CallReaders_until_stopped(_, _, _)
CallReaders_until_stopped(w, rdy, k) ==
    IF k > Len(rdy) \/ ~w.running THEN w
    ELSE CallReaders_until_stopped(Reader_call(w, rdy[k]), rdy, k + 1)

\* "for fd in ready: self._readers[fd](fd)", from position k of ready; an
\* exception leaves the loop.
RECURSIVE CallReaders(_, _, _)
CallReaders(w, rdy, k) ==
    IF k > Len(rdy) \/ w.exc # "" THEN w
    ELSE CallReaders(Reader_call(w, rdy[k]), rdy, k + 1)

\* An iteration that runs the timers only when the wait timed out.
EventLoop_dispatch_timers_on_timeout(w, rdy) ==
    CallReaders(IF rdy = <<>> THEN TimerManager_run(w) ELSE w, rdy, 1)

\* EventLoop.run, the part of an iteration after the wait:
\* self._timers.run(), then the callbacks of the ready descriptors.
EventLoop_dispatch(w, rdy) ==
    LET w1 == TimerManager_run(w) IN
    IF w1.exc # "" THEN w1 ELSE CallReaders(w1, rdy, 1)

\* What select.select() can report: some of the watched descriptors, each
\* once, in any order.
Readable(w) ==
    LET fds == DOMAIN w.readers IN
    {rdy \in UNION {[1..n -> fds] : n \in 0..Cardinality(fds)} :
        \A a, b \in DOMAIN rdy : a # b => rdy[a] # rdy[b]}

\* ------------------------------------------------------------ operations
NoResult == [op |-> "none", id |-> 0, ret |-> FALSE, val |-> 0, err |-> ""]

\* Write a world back to the variables.
Commit(w) ==
    /\ now' = w.now
    /\ timers' = w.timers
    /\ tracked' = w.tracked
    /\ running' = w.running
    /\ readers' = w.readers
    /\ log' = w.log
    /\ history' = w.history
    /\ io' = w.io

Fresh == [World EXCEPT !.log = <<>>]

\* The clock advances between operations.
Advance(d) ==
    /\ now + d <= MaxTime
    /\ Commit([Fresh EXCEPT !.now = now + d])
    /\ last' = [NoResult EXCEPT !.op = "advance", !.val = d]
    /\ UNCHANGED <<pc, ready>>

\* timer = Timer(callback, interval, repeat)
NewTimer(callback, interval, repeat) ==
    LET r == Timer_init(Fresh, callback, interval, repeat) IN
    /\ Commit(r.w)
    /\ last' = [NoResult EXCEPT !.op = "init", !.id = r.id, !.val = interval,
                                !.err = r.err]
    /\ UNCHANGED <<pc, ready>>

\* timer.run()
Tick(i) ==
    LET r == Timer_run(Fresh, i) IN
    /\ r.w.now <= MaxTime
    /\ Commit(r.w)
    /\ last' = [NoResult EXCEPT !.op = "run", !.id = i, !.ret = r.ret,
                                !.err = r.w.exc]
    /\ UNCHANGED <<pc, ready>>

\* timer.reset()
Reset(i) ==
    /\ Commit(Timer_reset(Fresh, i))
    /\ last' = [NoResult EXCEPT !.op = "reset", !.id = i]
    /\ UNCHANGED <<pc, ready>>

\* timer.cancel()
Cancel(i) ==
    /\ Commit(Timer_cancel(Fresh, i))
    /\ last' = [NoResult EXCEPT !.op = "cancel", !.id = i]
    /\ UNCHANGED <<pc, ready>>

\* timer.sleep_time()
SleepTime(i) ==
    /\ Commit(Fresh)
    /\ last' = [NoResult EXCEPT !.op = "sleep_time", !.id = i,
                                !.val = Timer_sleep_time(Fresh, i)]
    /\ UNCHANGED <<pc, ready>>

\* ------------------------------------------------- one Timer object alone
\* (tests.py TestTimer): a Timer is created and then ticked, reset, cancelled
\* and queried at arbitrary times.
InitTimer ==
    /\ history = TRUE
    /\ now = 0
    /\ timers = <<>>
    /\ tracked = <<>>
    /\ running = FALSE
    /\ readers = <<>>
    /\ pc = "idle"
    /\ ready = <<>>
    /\ log = <<>>
    /\ last = NoResult
    /\ io = NoIO

NextTimer ==
    \/ \E d \in 1..MaxTime : Advance(d)
    \/ /\ timers = <<>>
       /\ \E cb \in TimerCallbacks, iv \in 0..MaxInterval, rp \in BOOLEAN :
             NewTimer(cb, iv, rp)
    \/ \E i \in DOMAIN timers : Tick(i)
    \/ \E i \in DOMAIN timers : Reset(i)
    \/ \E i \in DOMAIN timers : Cancel(i)
    \/ \E i \in DOMAIN timers : SleepTime(i)

SpecTimer == InitTimer /\ [][NextTimer]_vars

\* ------------------------------------------------------- the TimerManager
\* manager.add_timer(timeout, callback, repeat)
AddTimer(timeout, callback, repeat) ==
    LET r == TimerManager_add_timer(Fresh, timeout, callback, repeat) IN
    /\ Commit(r.w)
    /\ last' = [NoResult EXCEPT !.op = "add_timer", !.id = r.id,
                                !.val = timeout, !.err = r.err]
    /\ UNCHANGED <<pc, ready>>

\* loop.add_timer(timeout, repeat)(callback), outside run()
LoopAddTimer(timeout, repeat, callback) ==
    LET r == EventLoop_add_timer(Fresh, timeout, repeat, callback) IN
    /\ Commit(r.w)
    /\ last' = [NoResult EXCEPT !.op = "loop.add_timer", !.id = r.id,
                                !.val = timeout, !.err = r.err]
    /\ UNCHANGED <<pc, ready>>

\* manager.run()
ManagerRun ==
    LET w == TimerManager_run(Fresh) IN
    /\ w.now <= MaxTime
    /\ Commit(w)
    /\ last' = [NoResult EXCEPT !.op = "manager.run", !.err = w.exc]
    /\ UNCHANGED <<pc, ready>>

\* manager.sleep_time()
ManagerSleepTime ==
    /\ Commit(Fresh)
    /\ last' = [NoResult EXCEPT !.op = "manager.sleep_time",
                                !.val = TimerManager_sleep_time(Fresh)]
    /\ UNCHANGED <<pc, ready>>

\* (tests.py TestTimerManager): timers are added to a manager, which is run
\* and queried at arbitrary times; the handles add_timer returned are reset,
\* cancelled and run by their holders.
Init ==
    /\ history = FALSE
    /\ now = 0
    /\ timers = <<>>
    /\ tracked = <<>>
    /\ running = FALSE
    /\ readers = <<>>
    /\ pc = "idle"
    /\ ready = <<>>
    /\ log = <<>>
    /\ last = NoResult
    /\ io = NoIO

Next ==
    \/ \E d \in 1..MaxTime : Advance(d)
    \/ /\ pc = "idle"
       /\ Len(timers) < MaxTimers
       /\ \E cb \in TimerCallbacks, iv \in -1..MaxInterval, rp \in BOOLEAN :
             \/ AddTimer(iv, cb, rp)
             \/ LoopAddTimer(iv, rp, cb)
             \/ NewTimer(cb, iv, rp)
    \/ ManagerRun
    \/ ManagerSleepTime
    \/ \E i \in DOMAIN timers : Tick(i)
    \/ \E i \in DOMAIN timers : Reset(i)
    \/ \E i \in DOMAIN timers : Cancel(i)

Spec == Init /\ [][Next]_vars

\* ------------------------------------------------------------ the EventLoop
\* loop.watch_for_reading(fd)(callback), before run()
Watch(file, callback) ==
    /\ pc = "idle"
    /\ Commit(EventLoop_watch_for_reading(Fresh, file, callback))
    /\ last' = [NoResult EXCEPT !.op = "watch_for_reading", !.id = file.n]
    /\ UNCHANGED <<pc, ready>>

\* loop.run() is called: self._running = True
RunStart ==
    /\ pc = "idle"
    /\ Commit([Fresh EXCEPT !.running = TRUE])
    /\ last' = [NoResult EXCEPT !.op = "run"]
    /\ pc' = "wait"
    /\ UNCHANGED ready

\* "while self._running" is false: run() returns.
RunReturn ==
    /\ pc = "wait"
    /\ ~running
    /\ Commit(Fresh)
    /\ last' = [NoResult EXCEPT !.op = "returned"]
    /\ pc' = "returned"
    /\ UNCHANGED ready

\* The first half of an iteration: the timeout, then select() or sleep().
\* The wait lasts d and reports rdy: with descriptors watched, it may return
\* at any time with some of them ready, and with none ready only once the
\* timeout has passed; without descriptors it is a sleep of the timeout, or
\* the assertion when there is no timeout either.
LoopWait(d, rdy) ==
    LET timeout == TimerManager_sleep_time(Fresh) IN
    /\ pc = "wait"
    /\ running
    /\ IF DOMAIN readers # {}
       THEN /\ rdy \in Readable(Fresh)
            /\ (rdy = <<>>) => (timeout # Infinity /\ d >= timeout)
            /\ now + d <= MaxTime
            /\ Commit([Fresh EXCEPT !.now = now + d])
            /\ ready' = rdy
            /\ pc' = "dispatch"
            /\ last' = [NoResult EXCEPT !.op = "wait", !.val = timeout]
       ELSE IF timeout = Infinity
       THEN /\ d = 0 /\ rdy = <<>>
            /\ Commit(Fresh)
            /\ ready' = <<>>
            /\ pc' = "raised"
            /\ last' = [NoResult EXCEPT !.op = "wait", !.val = timeout,
                                        !.err = "AssertionError"]
       ELSE /\ rdy = <<>>
            /\ d >= timeout
            /\ now + d <= MaxTime
            /\ Commit([Fresh EXCEPT !.now = now + d])
            /\ ready' = <<>>
            /\ pc' = "dispatch"
            /\ last' = [NoResult EXCEPT !.op = "wait", !.val = timeout]

\* The second half of an iteration: the timers, then the ready descriptors.
\* What a callback raises leaves run().
LoopDispatch ==
    LET w == EventLoop_dispatch(Fresh, ready) IN
    /\ pc = "dispatch"
    /\ w.now <= MaxTime
    /\ Commit(w)
    /\ ready' = <<>>
    /\ pc' = IF w.exc # "" THEN "raised" ELSE "wait"
    /\ last' = [NoResult EXCEPT !.op = "dispatch", !.err = w.exc]

\* Timers are added and descriptors watched, then run() is called.
InitLoop == Init

NextLoop ==
    \/ /\ pc = "idle"
       /\ Len(timers) < MaxTimers
       /\ \E cb \in LoopTimerCallbacks, iv \in 1..MaxInterval, rp \in BOOLEAN :
             LoopAddTimer(iv, rp, cb)
    \/ \E file \in Files, cb \in ReaderCallbacks : Watch(file, cb)
    \/ RunStart
    \/ \E d \in 0..MaxTime :
          \E rdy \in UNION {[1..n -> 1..MaxFds] : n \in 0..MaxFds} :
             LoopWait(d, rdy)
    \/ LoopDispatch
    \/ RunReturn

SpecLoop == InitLoop /\ [][NextLoop]_vars

\* The same, with callbacks that may fail among the callbacks.
InitRaise == Init

NextRaise ==
    \/ /\ pc = "idle"
       /\ Len(timers) < MaxTimers
       /\ \E cb \in RaisingTimerCallbacks, iv \in 1..MaxInterval,
             rp \in BOOLEAN :
             LoopAddTimer(iv, rp, cb)
    \/ \E file \in Files, cb \in RaisingReaderCallbacks : Watch(file, cb)
    \/ RunStart
    \/ \E d \in 0..MaxTime :
          \E rdy \in UNION {[1..n -> 1..MaxFds] : n \in 0..MaxFds} :
             LoopWait(d, rdy)
    \/ LoopDispatch
    \/ RunReturn

SpecRaise == InitRaise /\ [][NextRaise]_vars

\* ------------------------------------------------- readers on a pipe
\* (tests.py test_pipe, TestLineReader, TestPushBack, TestPacketReader): a
\* test opens a pipe, registers a reader for its read end and writes to the
\* write end while the loop runs; the reader is invoked in each iteration
\* whose select() reports the read end.

\* loop.watch_for_reading(file)(callback), or one of the framing readers,
\* for the read end of the pipe.
StreamRegister(file, callback) ==
    LET w == CASE callback = "read" ->
                    EventLoop_watch_for_reading(Fresh, file, callback)
               [] callback = "block" ->
                    EventLoop_block_reader(Fresh, file, MaxBlock, callback)
               [] callback = "push_back" ->
                    EventLoop_push_back_reader(Fresh, file, MaxBlock,
                                               callback)
               [] callback = "line" ->
                    EventLoop_line_reader(Fresh, file, MaxBlock, callback)
               [] callback = "packet" ->
                    PacketReader_init(Fresh, file, MaxBlock)
    IN  /\ pc = "idle"
        /\ file.n = io.fd
        /\ Commit([w EXCEPT !.io.registered = callback,
                            !.io.replaced = IF io.fd \in DOMAIN readers
                                            THEN readers[io.fd] ELSE "",
                            !.io.filelike = ~file.int,
                            !.io.read = <<>>,
                            !.io.delivered = <<>>,
                            !.io.dropped = <<>>])
        /\ last' = [NoResult EXCEPT !.op = "register", !.id = file.n]
        /\ UNCHANGED <<pc, ready>>

\* os.write(writer, byte)
PipeWrite(byte) ==
    /\ pc = "idle"
    /\ ~io.closed
    /\ Len(io.read) + Len(io.pipe) < MaxStream
    /\ Commit([Fresh EXCEPT !.io.pipe = Append(@, byte)])
    /\ last' = [NoResult EXCEPT !.op = "write"]
    /\ UNCHANGED <<pc, ready>>

\* os.close(writer): the read end is at its end once the pipe is empty.
PipeClose ==
    /\ pc = "idle"
    /\ ~io.closed
    /\ Commit([Fresh EXCEPT !.io.closed = TRUE])
    /\ last' = [NoResult EXCEPT !.op = "close"]
    /\ UNCHANGED <<pc, ready>>

\* An iteration of run() whose select() reported the read end of the pipe,
\* which has bytes to read or is at its end.  An exception leaves run().
\* last.val is the number of invocations of the test's callback.
StreamReady ==
    LET w == EventLoop_dispatch(Fresh, <<io.fd>>) IN
    /\ pc = "idle"
    /\ io.fd \in DOMAIN readers
    /\ io.pipe # <<>> \/ (io.closed /\ io.eofs < MaxEofReads)
    /\ Commit([w EXCEPT !.io.eofs = IF io.pipe = <<>> THEN @ + 1 ELSE @])
    /\ last' = [NoResult EXCEPT !.op = "ready", !.err = w.exc,
                                !.val = Len(w.io.delivered)
                                            - Len(io.delivered)]
    /\ pc' = IF w.exc # "" THEN "raised" ELSE pc
    /\ UNCHANGED ready

\* A test like test_push_back: its callback pushes back, at each invocation,
\* up to MaxPushes fragments, each the data it was given or one byte; what
\* waits in the list stays within MaxStream bytes.
PushBytes == {97, 98}

PushChoices ==
    {[all |-> TRUE, bytes |-> <<>>]}
        \cup {[all |-> FALSE, bytes |-> <<b>>] : b \in PushBytes}

PushBackReady(pushes) ==
    LET w == EventLoop_dispatch([Fresh EXCEPT !.io.will_push = pushes],
                                <<io.fd>>)
    IN  /\ pc = "idle"
        /\ io.fd \in DOMAIN readers
        /\ io.pipe # <<>>
        /\ Len(Join(w.io.pushed_back)) <= MaxStream
        /\ Commit(w)
        /\ last' = [NoResult EXCEPT !.op = "ready", !.err = w.exc,
                                    !.val = Len(w.io.delivered)
                                                - Len(io.delivered)]
        /\ UNCHANGED <<pc, ready>>

InitPushBack ==
    /\ history = FALSE
    /\ now = 0
    /\ timers = <<>>
    /\ tracked = <<>>
    /\ running = FALSE
    /\ readers = <<>>
    /\ pc = "idle"
    /\ ready = <<>>
    /\ log = <<>>
    /\ last = NoResult
    /\ \E fd \in 1..MaxFds : io = [NoIO EXCEPT !.fd = fd]

NextPushBack ==
    \/ /\ readers = <<>>
       /\ \E file \in Files : StreamRegister(file, "push_back")
    \/ \E byte \in PushBytes : PipeWrite(byte)
    \/ \E pushes \in UNION {[1..n -> PushChoices] : n \in 0..MaxPushes} :
          PushBackReady(pushes)

SpecPushBack == InitPushBack /\ [][NextPushBack]_vars

\* A test like test_packets: for each packet it writes noise without a
\* delimiter in it, the delimiter, the length byte and the payload; the
\* bytes reach the pipe one at a time, so that the reader's blocks end
\* anywhere.
NoiseBytes == {PACKET_DELIMITER[1], 1}
PayloadBytes == {PACKET_DELIMITER[1], PACKET_DELIMITER[2]}

Strings(bytes, n) == UNION {[1..k -> bytes] : k \in 0..n}

\* The bytes queued so far.
Queued == IF io.sent = <<>> THEN 0 ELSE io.sent[Len(io.sent)].end

SendPacket(noise, payload) ==
    LET bytes == noise \o PACKET_DELIMITER \o <<Len(payload) + 1>>
                    \o payload
    IN  /\ pc = "idle"
        /\ io.outbox = <<>>
        /\ Len(io.sent) < MaxPackets
        /\ Index(noise, PACKET_DELIMITER) = 0
        /\ Commit([Fresh EXCEPT
                    !.io.outbox = bytes,
                    !.io.sent = Append(@, [payload |-> payload,
                                           noise |-> Len(noise),
                                           end |-> Queued + Len(bytes)])])
        /\ last' = [NoResult EXCEPT !.op = "send"]
        /\ UNCHANGED <<pc, ready>>

\* os.write: the next byte queued reaches the pipe.
PipeFlow ==
    /\ pc = "idle"
    /\ io.outbox # <<>>
    /\ Commit([Fresh EXCEPT !.io.pipe = Append(@, Head(io.outbox)),
                            !.io.outbox = Tail(@)])
    /\ last' = [NoResult EXCEPT !.op = "write"]
    /\ UNCHANGED <<pc, ready>>

InitPackets ==
    /\ history = FALSE
    /\ now = 0
    /\ timers = <<>>
    /\ tracked = <<>>
    /\ running = FALSE
    /\ readers = <<>>
    /\ pc = "idle"
    /\ ready = <<>>
    /\ log = <<>>
    /\ last = NoResult
    /\ io = [NoIO EXCEPT !.fd = MaxFds]

NextPackets ==
    \/ /\ readers = <<>>
       /\ \E file \in Files : file.int /\ StreamRegister(file, "packet")
    \/ \E noise \in Strings(NoiseBytes, MaxNoise),
          payload \in Strings(PayloadBytes, MaxPayload) :
          SendPacket(noise, payload)
    \/ PipeFlow
    \/ StreamReady

SpecPackets == InitPackets /\ [][NextPackets]_vars

\* A line that carries garbage of any kind between the packets: the bytes
\* before a packet's delimiter are arbitrary, delimiters among them or not
\* (clean), and the reader is given one of two block sizes.
GarbageBytes == {PACKET_DELIMITER[1], PACKET_DELIMITER[2], 1}
GarbagePayloadBytes == {PACKET_DELIMITER[1]}

\* PacketReader(loop, file, callback, max_block_size)
PacketRegister(file, max_block_size) ==
    LET w == PacketReader_init(Fresh, file, max_block_size) IN
    /\ pc = "idle"
    /\ file.n = io.fd
    /\ Commit([w EXCEPT !.io.registered = "packet",
                        !.io.replaced = IF io.fd \in DOMAIN readers
                                        THEN readers[io.fd] ELSE "",
                        !.io.filelike = ~file.int,
                        !.io.read = <<>>,
                        !.io.delivered = <<>>,
                        !.io.dropped = <<>>])
    /\ last' = [NoResult EXCEPT !.op = "register", !.id = file.n]
    /\ UNCHANGED <<pc, ready>>

SendGarbled(noise, payload) ==
    LET bytes == noise \o PACKET_DELIMITER \o <<Len(payload) + 1>>
                    \o payload
    IN  /\ pc = "idle"
        /\ io.outbox = <<>>
        /\ Len(io.sent) < MaxPackets
        /\ Commit([Fresh EXCEPT
                    !.io.outbox = bytes,
                    !.io.sent = Append(@, [payload |-> payload,
                                           noise |-> Len(noise),
                                           clean |-> Index(noise,
                                                       PACKET_DELIMITER) = 0,
                                           end |-> Queued + Len(bytes)])])
        /\ last' = [NoResult EXCEPT !.op = "send"]
        /\ UNCHANGED <<pc, ready>>

InitGarbage ==
    /\ history = FALSE
    /\ now = 0
    /\ timers = <<>>
    /\ tracked = <<>>
    /\ running = FALSE
    /\ readers = <<>>
    /\ pc = "idle"
    /\ ready = <<>>
    /\ log = <<>>
    /\ last = NoResult
    /\ io = [NoIO EXCEPT !.fd = MaxFds]

NextGarbage ==
    \/ /\ readers = <<>>
       /\ \E file \in Files, size \in {MaxBlock, 2 * MaxBlock} :
             file.int /\ PacketRegister(file, size)
    \/ \E noise \in Strings(GarbageBytes, MaxNoise),
          payload \in Strings(GarbagePayloadBytes, MaxPayload) :
          SendGarbled(noise, payload)
    \/ PipeFlow
    \/ StreamReady

SpecGarbage == InitGarbage /\ [][NextGarbage]_vars

\* The bytes a test writes: a newline and the first byte of the delimiter.
StreamBytes == {Newline, PACKET_DELIMITER[1]}

\* The bytes of a stream written byte by byte to a PacketReader: the
\* delimiter's, the length bytes 0 and 1.
RawBytes == {0, 1, PACKET_DELIMITER[1], PACKET_DELIMITER[2]}

\* os.write(writer, chr(byte)) on the pipe of a PacketReader
RawWrite(byte) ==
    /\ pc = "idle"
    /\ io.registered = "packet"
    /\ Len(io.read) + Len(io.pipe) < MaxRaw
    /\ Commit([Fresh EXCEPT !.io.pipe = Append(@, byte)])
    /\ last' = [NoResult EXCEPT !.op = "write"]
    /\ UNCHANGED <<pc, ready>>

\* A PacketReader on a pipe that carries any bytes.
InitRaw == InitGarbage

NextRaw ==
    \/ /\ readers = <<>>
       /\ \E file \in Files, size \in {MaxBlock, MaxRaw} :
             file.int /\ PacketRegister(file, size)
    \/ \E byte \in RawBytes : RawWrite(byte)
    \/ StreamReady

SpecRaw == InitRaw /\ [][NextRaw]_vars

InitStream ==
    /\ history = FALSE
    /\ now = 0
    /\ timers = <<>>
    /\ tracked = <<>>
    /\ running = FALSE
    /\ readers = <<>>
    /\ pc = "idle"
    /\ ready = <<>>
    /\ log = <<>>
    /\ last = NoResult
    /\ \E fd \in 1..MaxFds : io = [NoIO EXCEPT !.fd = fd]

NextStream ==
    \/ \E file \in Files, cb \in FramingCallbacks \cup {"read"} :
          StreamRegister(file, cb)
    \/ \E byte \in StreamBytes : PipeWrite(byte)
    \/ PipeClose
    \/ StreamReady

SpecStream == InitStream /\ [][NextStream]_vars

\* ------------------------------------------- a manager driven on schedule
\* (tests.py test_many, test_contsant_sleep): repeating timers with counting
\* callbacks are added at time 0; the driver then either sleeps for exactly
\* sleep_time() or lets one unit of time pass, and runs the manager; it may
\* add a one-shot timer on the way.

\* manager.add_timer(f[k], MockCallback(), repeat=True) for k = from..to
RECURSIVE AddRepeating(_, _, _, _)
AddRepeating(w, f, from, to) ==
    IF from > to THEN w
    ELSE AddRepeating(TimerManager_add_timer(w, f[from], "count", TRUE).w,
                      f, from + 1, to)

InitMany ==
    /\ history = TRUE
    /\ now = 0
    /\ running = FALSE
    /\ readers = <<>>
    /\ pc = "idle"
    /\ ready = <<>>
    /\ log = <<>>
    /\ last = NoResult
    /\ io = NoIO
    /\ \E f \in [1..MaxTimers -> 1..ManyMaxInterval] :
          LET w == AddRepeating(
                       [now |-> 0, timers |-> <<>>, tracked |-> <<>>,
                        running |-> FALSE, readers |-> <<>>, log |-> <<>>,
                        history |-> TRUE, io |-> NoIO, exc |-> ""],
                       f, 1, MaxTimers)
          IN  timers = w.timers /\ tracked = w.tracked

\* time.time += manager.sleep_time(); manager.run()
ManySleepRun ==
    LET d == TimerManager_sleep_time(Fresh)
        w == TimerManager_run([Fresh EXCEPT !.now = now + d])
    IN  /\ d # Infinity
        /\ now + d <= Horizon
        /\ Commit(w)
        /\ last' = [NoResult EXCEPT !.op = "manager.run", !.val = d]
        /\ UNCHANGED <<pc, ready>>

\* the next time of "for time.time in xrange(100): manager.run()"
ManyStepRun ==
    LET w == TimerManager_run([Fresh EXCEPT !.now = now + 1])
    IN  /\ now + 1 <= Horizon
        /\ Commit(w)
        /\ last' = [NoResult EXCEPT !.op = "manager.run", !.val = 1]
        /\ UNCHANGED <<pc, ready>>

\* manager.add_timer(d, one_shot)
ManyAddOneShot(d) ==
    LET r == TimerManager_add_timer(Fresh, d, "count", FALSE) IN
    /\ Len(timers) = MaxTimers
    /\ Commit(r.w)
    /\ last' = [NoResult EXCEPT !.op = "add_timer", !.id = r.id,
                                !.val = d, !.err = r.err]
    /\ UNCHANGED <<pc, ready>>

NextMany ==
    \/ ManySleepRun
    \/ ManyStepRun
    \/ \E d \in 1..ManyMaxInterval : ManyAddOneShot(d)

SpecMany == InitMany /\ [][NextMany]_vars

\* ------------------------------ callbacks that act on the manager's timers
\* A manager whose timers' callbacks may cancel the other timers.
InitCancel == Init

NextCancel ==
    \/ \E d \in 1..MaxTime : Advance(d)
    \/ /\ Len(timers) < MaxTimers
       /\ \E cb \in CancellingTimerCallbacks, iv \in 1..MaxInterval,
             rp \in BOOLEAN :
             AddTimer(iv, cb, rp)
    \/ ManagerRun

SpecCancel == InitCancel /\ [][NextCancel]_vars

\* manager.run() while callbacks may call manager.add_timer.
ManagerRunAdding ==
    /\ Len(TimerManager_run(Fresh).timers) <= MaxCreated
    /\ ManagerRun

\* A manager whose timers' callbacks may add timers to it.
InitAdd == Init

NextAdd ==
    \/ \E d \in 1..MaxTime : Advance(d)
    \/ /\ Len(timers) < MaxTimers
       /\ \E cb \in AddingTimerCallbacks, iv \in 1..MaxInterval,
             rp \in BOOLEAN :
             AddTimer(iv, cb, rp)
    \/ ManagerRunAdding

SpecAdd == InitAdd /\ [][NextAdd]_vars

\* loop.run() while callbacks may call loop.add_timer: the timers and then
\* the ready descriptors of one iteration.
LoopDispatchAdding ==
    /\ Len(EventLoop_dispatch(Fresh, ready).timers) <= MaxCreated
    /\ LoopDispatch

\* A loop whose timers' callbacks may add, reset and cancel timers.
InitLoopAdd ==
    /\ history = TRUE
    /\ now = 0
    /\ timers = <<>>
    /\ tracked = <<>>
    /\ running = FALSE
    /\ readers = <<>>
    /\ pc = "idle"
    /\ ready = <<>>
    /\ log = <<>>
    /\ last = NoResult
    /\ io = NoIO

NextLoopAdd ==
    \/ /\ pc = "idle"
       /\ Len(timers) < MaxTimers
       /\ \E cb \in AddingTimerCallbacks, iv \in 1..MaxInterval,
             rp \in BOOLEAN :
             LoopAddTimer(iv, rp, cb)
    \/ \E file \in Files, cb \in ReaderCallbacks : Watch(file, cb)
    \/ RunStart
    \/ \E d \in 0..MaxTime :
          \E rdy \in UNION {[1..n -> 1..MaxFds] : n \in 0..MaxFds} :
             LoopWait(d, rdy)
    \/ LoopDispatchAdding
    \/ RunReturn

SpecLoopAdd == InitLoopAdd /\ [][NextLoopAdd]_vars

\* --------------------------- callbacks that register descriptor callbacks
\* A loop whose descriptor callbacks may register callbacks for the other
\* descriptors.
InitRewatch == Init

NextRewatch ==
    \/ /\ pc = "idle"
       /\ Len(timers) < 1
       /\ \E iv \in 1..MaxInterval, rp \in BOOLEAN :
             LoopAddTimer(iv, rp, "count")
    \/ \E file \in Files, cb \in RewatchingReaderCallbacks : Watch(file, cb)
    \/ RunStart
    \/ \E d \in 0..MaxTime :
          \E rdy \in UNION {[1..n -> 1..MaxFds] : n \in 0..MaxFds} :
             LoopWait(d, rdy)
    \/ LoopDispatch
    \/ RunReturn

SpecRewatch == InitRewatch /\ [][NextRewatch]_vars

\* ------------------------------------- handles kept by the manager's caller
\* A manager whose caller keeps the handle of every timer it adds, and resets
\* or cancels them at any time.
InitHandles == Init

NextHandles ==
    \/ \E d \in 1..MaxTime : Advance(d)
    \/ /\ Len(timers) < MaxTimers
       /\ \E cb \in TimerCallbacks, iv \in 1..MaxInterval, rp \in BOOLEAN :
             AddTimer(iv, cb, rp)
    \/ ManagerRun
    \/ ManagerSleepTime
    \/ \E i \in DOMAIN timers : Reset(i)
    \/ \E i \in DOMAIN timers : Cancel(i)

SpecHandles == InitHandles /\ [][NextHandles]_vars

\* ------------------------------------------- a loop that has timers only
\* loop.run() with timers and no descriptor watched.
InitTimersOnly == Init

NextTimersOnly ==
    \/ /\ pc = "idle"
       /\ Len(timers) < MaxTimers
       /\ \E cb \in LoopTimerCallbacks, iv \in 1..MaxInterval, rp \in BOOLEAN :
             LoopAddTimer(iv, rp, cb)
    \/ RunStart
    \/ \E d \in 0..MaxTime : LoopWait(d, <<>>)
    \/ LoopDispatch
    \/ RunReturn

SpecTimersOnly == InitTimersOnly /\ [][NextTimersOnly]_vars

\* ------------------------------- a push_back_reader inside a running loop
\* os.write(writer, ...) by another process while run() waits: the writer
\* sends 'a', 'b', 'a', ... one byte at a time.
PushLoopWrite ==
    /\ pc = "wait"
    /\ running
    /\ Len(io.read) + Len(io.pipe) < MaxStream
    /\ Commit([Fresh EXCEPT !.io.pipe =
                  Append(@, IF (Len(io.read) + Len(io.pipe)) % 2 = 0
                            THEN 97 ELSE 98)])
    /\ last' = [NoResult EXCEPT !.op = "write"]
    /\ UNCHANGED <<pc, ready>>

\* select.select: the pipe's descriptor is reported if and only if there is
\* something to read from it.
PushLoopWait(d, rdy) ==
    /\ (\E k \in DOMAIN rdy : rdy[k] = io.fd) <=> (io.pipe # <<>>)
    /\ LoopWait(d, rdy)

\* self._timers.run(); for fd in ready: self._readers[fd](fd), the callback
\* of the push_back_reader pushing back what pushes says.
PushLoopDispatch(pushes) ==
    LET mine == \E k \in DOMAIN ready : ready[k] = io.fd
        w == EventLoop_dispatch(
                 [Fresh EXCEPT !.io.will_push = IF mine THEN pushes ELSE <<>>],
                 ready)
    IN  /\ pc = "dispatch"
        /\ mine \/ pushes = <<>>
        /\ w.now <= MaxTime
        /\ Len(Join(w.io.pushed_back)) <= MaxStream
        /\ Commit(w)
        /\ ready' = <<>>
        /\ pc' = IF w.exc # "" THEN "raised" ELSE "wait"
        /\ last' = [NoResult EXCEPT !.op = "dispatch", !.err = w.exc,
                                    !.val = Len(w.io.delivered)
                                                - Len(io.delivered)]

\* A loop with a push_back_reader on a pipe, a watcher on another
\* descriptor and a timer.
InitPushLoop ==
    /\ history = FALSE
    /\ now = 0
    /\ timers = <<>>
    /\ tracked = <<>>
    /\ running = FALSE
    /\ readers = <<>>
    /\ pc = "idle"
    /\ ready = <<>>
    /\ log = <<>>
    /\ last = NoResult
    /\ io = [NoIO EXCEPT !.fd = 1]

NextPushLoop ==
    \/ /\ io.registered = ""
       /\ StreamRegister([int |-> TRUE, n |-> io.fd], "push_back")
    \/ /\ io.registered # ""
       /\ \E n \in 1..MaxFds :
             /\ n # io.fd
             /\ n \notin DOMAIN readers
             /\ Watch([int |-> TRUE, n |-> n], "read")
    \/ /\ pc = "idle"
       /\ timers = <<>>
       /\ \E iv \in 1..MaxInterval, rp \in BOOLEAN :
             LoopAddTimer(iv, rp, "count")
    \/ io.registered # "" /\ RunStart
    \/ PushLoopWrite
    \/ \E d \in 0..MaxTime :
          \E rdy \in UNION {[1..n -> 1..MaxFds] : n \in 0..MaxFds} :
             PushLoopWait(d, rdy)
    \/ \E pushes \in UNION {[1..n -> PushChoices] : n \in 0..MaxPushes} :
          PushLoopDispatch(pushes)

SpecPushLoop == InitPushLoop /\ [][NextPushLoop]_vars

\* ------------------------- the TimerManager of src/event_loop.py (tuples)
\* self._timers is a list of tuples (next, interval, callback).  The tuple of
\* the timer added i-th is the record timers[i] (expiry is next, repeat is
\* whether interval is not None) and tracked lists the tuples in the order of
\* self._timers.
\*   count : a callback that only notes its call
\*   slow  : a callback during which the clock advances by SlowBy
\*   add   : a callback that calls add_timer(AddedTimeout, count)
TupleTimerCallbacks == {"count", "slow", "add"}

\* TimerManager.add_timer of src/event_loop.py
TupleTimerManager_add_timer(w, timeout, callback, repeat) ==
    IF ~(timeout > 0) THEN [w |-> w, err |-> "AssertionError", id |-> 0]
    ELSE LET id == Len(w.timers) + 1
             obj == [callback |-> callback, interval |-> timeout,
                     repeat |-> repeat, expiry |-> w.now + timeout,
                     calls |-> 0, t0 |-> 0, hist |-> "fresh"]
         IN  [w |-> [w EXCEPT !.timers = Append(@, obj),
                              !.tracked = Append(@, id)],
              err |-> "", id |-> id]

\* callback()
TupleTimer_call(w, id) ==
    LET w1 == [w EXCEPT !.log = Append(@, <<"timer", id>>)]
        cb == w.timers[id].callback
    IN  CASE cb = "count" -> w1
          [] cb = "slow"  -> [w1 EXCEPT !.now = @ + SlowBy]
          [] cb = "add"   ->
                TupleTimerManager_add_timer(w1, AddedTimeout, "count", FALSE).w

\* del self._timers[index] for the indices to remove
TupleDelete(list, indices_to_remove) ==
    LET keep == {k \in DOMAIN list : k \notin indices_to_remove}
        F[k \in 0..Len(list)] ==
            IF k = 0 THEN <<>>
            ELSE IF k \in keep THEN Append(F[k - 1], list[k]) ELSE F[k - 1]
    IN  F[Len(list)]

\* A run that works out the next expiry before it calls the callback.
RECURSIVE TupleRunFrom_samples_before(_, _, _)
TupleRunFrom_samples_before(w, index, indices_to_remove) ==
    IF index > Len(w.tracked)
    THEN [w EXCEPT !.tracked = TupleDelete(@, indices_to_remove)]
    ELSE LET id == w.tracked[index]
             t == w.timers[id]
             times == (w.now - t.expiry) \div t.interval + 1
             w1 == TupleTimer_call(w, id)
         IN  IF t.expiry > w.now
             THEN TupleRunFrom_samples_before(w, index + 1, indices_to_remove)
             ELSE IF t.repeat
             THEN TupleRunFrom_samples_before(
                      [w1 EXCEPT !.timers[id].expiry =
                                      t.expiry + times * t.interval],
                      index + 1, indices_to_remove)
             ELSE TupleRunFrom_samples_before(
                      w1, index + 1, indices_to_remove \cup {index})

\* The loop of TimerManager.run of src/event_loop.py from position index on,
\* then the removals.
RECURSIVE TupleRunFrom(_, _, _)
TupleRunFrom(w, index, indices_to_remove) ==
    IF index > Len(w.tracked)
    THEN [w EXCEPT !.tracked = TupleDelete(@, indices_to_remove)]
    ELSE LET id == w.tracked[index]
             t == w.timers[id]
             w1 == TupleTimer_call(w, id)
             times == (w1.now - t.expiry) \div t.interval + 1
         IN  IF t.expiry > w.now
             THEN TupleRunFrom(w, index + 1, indices_to_remove)
             ELSE IF t.repeat
             THEN TupleRunFrom(
                      [w1 EXCEPT !.timers[id].expiry =
                                      t.expiry + times * t.interval],
                      index + 1, indices_to_remove)
             ELSE TupleRunFrom(w1, index + 1, indices_to_remove \cup {index})

\* TimerManager.run of src/event_loop.py
TupleTimerManager_run(w) ==
    TupleRunFrom(w, 1, {})

\* manager.add_timer(timeout, callback, repeat)
TupleAddTimer(timeout, callback, repeat) ==
    LET r == TupleTimerManager_add_timer(Fresh, timeout, callback, repeat) IN
    /\ Commit(r.w)
    /\ last' = [NoResult EXCEPT !.op = "tuple.add_timer", !.id = r.id,
                                !.val = timeout, !.err = r.err]
    /\ UNCHANGED <<pc, ready>>

\* manager.run()
TupleRun ==
    LET w == TupleTimerManager_run(Fresh) IN
    /\ w.now <= MaxTime
    /\ Len(w.timers) <= MaxCreated
    /\ Commit(w)
    /\ last' = [NoResult EXCEPT !.op = "tuple.run"]
    /\ UNCHANGED <<pc, ready>>

InitTuple == Init

NextTuple ==
    \/ \E d \in 1..MaxTime : Advance(d)
    \/ /\ Len(timers) < MaxTimers
       /\ \E cb \in TupleTimerCallbacks, timeout \in 0..MaxInterval,
             rp \in BOOLEAN :
             TupleAddTimer(timeout, cb, rp)
    \/ TupleRun

SpecTuple == InitTuple /\ [][NextTuple]_vars

\* ------------------------------------------------------------------ claims
\* The step just taken was operation op on timer i.
Did(op, i) == last'.op = op /\ last'.id = i

\* Timer i was armed at t0 and is still waiting for its first expiry since.
Waiting(i) == timers[i].expiry = timers[i].t0 + timers[i].interval

\* Timer i is in the manager's list (before the step, after the step).
IsTracked(i) == \E k \in DOMAIN tracked : tracked[k] = i
IsTrackedNext(i) == \E k \in DOMAIN tracked' : tracked'[k] = i

\* How many times the step just taken invoked timer i's callback.
Invocations(i) == Cardinality({k \in DOMAIN log' : log'[k] = <<"timer", i>>})

\* Timer i is armed and its expiry has come.
Due(i) == timers[i].expiry # None /\ now >= timers[i].expiry

\* The world after the step.
WorldNext ==
    [now |-> now', timers |-> timers', tracked |-> tracked',
     running |-> running', readers |-> readers', log |-> log',
     history |-> history', io |-> io', exc |-> ""]

\* C1: a repeating timer that is due fires exactly once in one run(), however
\* late the check, and (the callback leaving the clock alone) its new expiry
\* is the smallest t0 + k * interval later than the time of the check; the
\* expiry of an armed repeating timer is always a whole number (>= 1) of
\* intervals after t0.
C1_RepeatingCatchUp ==
    /\ [](\A i \in DOMAIN timers :
            (timers[i].repeat /\ timers[i].expiry # None) =>
                /\ timers[i].expiry > timers[i].t0
                /\ (timers[i].expiry - timers[i].t0) % timers[i].interval = 0)
    /\ [][\A i \in DOMAIN timers :
            (/\ Did("run", i)
             /\ timers[i].repeat
             /\ timers[i].expiry # None
             /\ now >= timers[i].expiry) =>
                /\ timers'[i].calls = timers[i].calls + 1
                /\ log' = << <<"timer", i>> >>
                /\ (now' = now /\ timers'[i].expiry # None) =>
                      /\ timers'[i].expiry > now
                      /\ timers'[i].expiry - timers'[i].interval <= now]_vars

\* A repeating timer checked two or more intervals late has fired once and is
\* armed for a boundary of its original schedule.
C1_Witness ==
    \E i \in DOMAIN timers :
        /\ last.op = "run" /\ last.id = i /\ last.ret
        /\ timers[i].repeat /\ timers[i].callback = "count"
        /\ timers[i].hist = "fresh"
        /\ timers[i].calls = 1
        /\ log = << <<"timer", i>> >>
        /\ now >= timers[i].t0 + 2 * timers[i].interval
        /\ timers[i].interval > 1
        /\ timers[i].expiry > now

\* C2: a non-repeating timer on which neither reset() nor cancel() is ever
\* called: run() before t0 + interval returns true and invokes nothing, and
\* sleep_time() is then t0 + interval - now; the first run() at or after
\* t0 + interval invokes the callback once and returns false; every later
\* run() returns false and invokes nothing, and sleep_time() is Infinity.
C2_NonRepeating ==
    [][\A i \in DOMAIN timers :
        (~timers[i].repeat /\ timers'[i].hist = "fresh") =>
            LET due == timers[i].t0 + timers[i].interval IN
            /\ (Did("run", i) /\ now < due) =>
                    /\ last'.ret
                    /\ log' = <<>>
                    /\ timers[i].calls = 0
                    /\ timers' = timers
            /\ (Did("run", i) /\ now >= due /\ timers[i].calls = 0) =>
                    /\ ~last'.ret
                    /\ log' = << <<"timer", i>> >>
                    /\ timers'[i].calls = 1
            /\ (Did("run", i) /\ timers[i].calls > 0) =>
                    /\ ~last'.ret
                    /\ log' = <<>>
                    /\ timers' = timers
            /\ (Did("sleep_time", i) /\ now < due) =>
                    last'.val = due - now
            /\ (Did("sleep_time", i) /\ timers[i].calls > 0) =>
                    last'.val = Infinity]_vars

\* A non-repeating timer that fired is run again later and stays silent.
C2_Witness ==
    \E i \in DOMAIN timers :
        /\ last.op = "run" /\ last.id = i /\ ~last.ret
        /\ ~timers[i].repeat /\ timers[i].hist = "fresh"
        /\ timers[i].calls = 1
        /\ log = <<>>
        /\ now > timers[i].t0 + timers[i].interval

\* C3: once cancel() was called on a timer and for as long as reset() is not,
\* run() returns false and invokes nothing, at any time, and sleep_time() is
\* Infinity.
C3_Cancelled ==
    [][\A i \in DOMAIN timers :
        (timers[i].hist = "cancelled" /\ timers'[i].hist = "cancelled") =>
            /\ timers'[i].calls = timers[i].calls
            /\ Did("run", i) => (~last'.ret /\ log' = <<>>)
            /\ Did("sleep_time", i) => last'.val = Infinity]_vars

\* A repeating timer cancelled is run when its schedule says it is due.
C3_Witness ==
    \E i \in DOMAIN timers :
        /\ last.op = "run" /\ last.id = i /\ ~last.ret
        /\ timers[i].repeat /\ timers[i].hist = "cancelled"
        /\ timers[i].callback = "count"
        /\ log = <<>>
        /\ now >= timers[i].t0 + timers[i].interval

\* C4: reset() at time t sets expiry to t + interval whatever the timer's
\* state, so that sleep_time() is then interval; a timer so armed (and still
\* waiting) does not fire in a run() before t + interval and fires once in
\* the first run() at or after t + interval.
C4_Reset ==
    [][\A i \in DOMAIN timers :
        /\ Did("reset", i) =>
                /\ timers'[i].expiry = now + timers[i].interval
                /\ timers'[i].t0 = now
                /\ now' = now
        /\ (Did("sleep_time", i) /\ last.op = "reset" /\ last.id = i) =>
                last'.val = timers[i].interval
        /\ (Did("run", i) /\ Waiting(i) /\ now < timers[i].t0 + timers[i].interval) =>
                /\ log' = <<>>
                /\ last'.ret
                /\ timers' = timers
        /\ (Did("run", i) /\ Waiting(i) /\ now >= timers[i].t0 + timers[i].interval) =>
                /\ log' = << <<"timer", i>> >>
                /\ timers'[i].calls = timers[i].calls + 1]_vars

\* A non-repeating timer that had fired is reset and fires a second time.
C4_Witness ==
    \E i \in DOMAIN timers :
        /\ last.op = "run" /\ last.id = i
        /\ ~timers[i].repeat /\ timers[i].callback = "count"
        /\ timers[i].hist = "reset"
        /\ timers[i].calls = 2
        /\ log = << <<"timer", i>> >>
        /\ now >= timers[i].t0 + timers[i].interval

\* C5: a callback that resets its own timer makes run() return true, with the
\* timer due one interval after the reset, also for a non-repeating timer,
\* which the manager then keeps; a callback that cancels its own timer makes
\* run() return false, also for a repeating timer, which the manager drops in
\* that pass.
C5_CallbackOverrides ==
    [][\A i \in DOMAIN timers :
        /\ (Did("run", i) /\ Due(i) /\ timers[i].callback = "reset") =>
                /\ last'.ret
                /\ Invocations(i) = 1
                /\ timers'[i].expiry = now + timers[i].interval
        /\ (Did("run", i) /\ Due(i) /\ timers[i].callback = "cancel") =>
                /\ ~last'.ret
                /\ Invocations(i) = 1
                /\ timers'[i].expiry = None
        /\ (/\ last'.op = "manager.run"
            /\ IsTracked(i) /\ Due(i) /\ timers[i].callback = "reset") =>
                /\ IsTrackedNext(i)
                /\ Invocations(i) = 1
                /\ timers'[i].expiry >= now + timers[i].interval
                /\ timers'[i].expiry <= now' + timers[i].interval
        /\ (/\ last'.op = "manager.run"
            /\ IsTracked(i) /\ Due(i) /\ timers[i].callback = "cancel") =>
                /\ ~IsTrackedNext(i)
                /\ Invocations(i) = 1
                /\ timers'[i].expiry = None]_vars

\* One pass fired a one-shot timer that reset itself, and kept it, and a
\* repeating timer that cancelled itself, and dropped it.
C5_Witness ==
    /\ last.op = "manager.run"
    /\ \E i, j \in DOMAIN timers :
        /\ ~timers[i].repeat /\ timers[i].callback = "reset"
        /\ \E k \in DOMAIN log : log[k] = <<"timer", i>>
        /\ \E k \in DOMAIN tracked : tracked[k] = i
        /\ timers[i].expiry = now + timers[i].interval
        /\ timers[j].repeat /\ timers[j].callback = "cancel"
        /\ \E k \in DOMAIN log : log[k] = <<"timer", j>>
        /\ \A k \in DOMAIN tracked : tracked[k] # j

\* The time left to an armed timer, computed from its expiry.
Remaining(i) ==
    IF timers[i].expiry <= now THEN 0 ELSE timers[i].expiry - now

C8_InvalidInterval ==
    [][(last'.op \in {"init", "add_timer", "loop.add_timer"}) =>
        IF last'.val <= 0
        THEN /\ last'.err = "AssertionError"
             /\ tracked' = tracked
             /\ timers' = timers
        ELSE /\ last'.err = ""
             /\ Len(timers') = Len(timers) + 1
             /\ tracked' = IF last'.op = "init" THEN tracked
                           ELSE Append(tracked, Len(timers'))]_vars

\* add_timer with an interval <= 0 has failed on a manager that tracks a timer.
C8_Witness ==
    /\ last.op = "add_timer"
    /\ last.val <= 0
    /\ last.err = "AssertionError"
    /\ Len(tracked) >= 1

\* C9: with a pass at every expiry instant and callbacks that take no time, a
\* repeating timer added at time 0 has been invoked floor(now / interval)
\* times, once in the pass at each multiple of its interval and in no other
\* pass; a one-shot timer added at t0 is invoked once, in the pass at
\* t0 + interval.
C9_OncePerBoundary ==
    /\ [](\A i \in DOMAIN timers :
            timers[i].calls =
                IF timers[i].repeat THEN now \div timers[i].interval
                ELSE IF now >= timers[i].t0 + timers[i].interval THEN 1 ELSE 0)
    /\ [][(last'.op = "manager.run") =>
            \A i \in DOMAIN timers :
                Invocations(i) =
                    IF timers[i].repeat
                    THEN (IF now' % timers[i].interval = 0 THEN 1 ELSE 0)
                    ELSE (IF /\ now < timers[i].t0 + timers[i].interval
                             /\ now' >= timers[i].t0 + timers[i].interval
                          THEN 1 ELSE 0)]_vars

\* Late in the run two timers of different intervals have fired several times
\* each, the last pass fired both, and a one-shot added on the way has fired.
C9_Witness ==
    /\ last.op = "manager.run"
    /\ \E i, j, k \in DOMAIN timers :
        /\ timers[i].repeat /\ timers[j].repeat
        /\ timers[i].interval < timers[j].interval
        /\ timers[i].interval > 1
        /\ timers[j].calls >= 2
        /\ log = << <<"timer", i>>, <<"timer", j>> >>
        /\ ~timers[k].repeat /\ timers[k].calls = 1
        /\ timers[k].t0 > 0

\* The callbacks of the ready descriptors, in the order reported.
ReadyCalls == [k \in 1..Len(ready) |-> <<"fd", ready[k]>>]

\* C10: every wait that returns, with descriptors ready or by timeout, is
\* followed by one dispatch pass over the timers: the wait itself invokes
\* nothing, every tracked timer that is due is invoked once and no timer
\* twice, and in the iteration's record of invocations every timer callback
\* comes before the callbacks of the ready descriptors, which follow in the
\* order reported.
C10_TimersBeforeDescriptors ==
    [][/\ (pc = "wait" /\ running) =>
            /\ pc' \in {"dispatch", "raised"}
            /\ log' = <<>>
            /\ timers' = timers /\ tracked' = tracked
       /\ (pc = "dispatch") =>
            /\ pc' = "wait"
            /\ \A i \in DOMAIN timers :
                    /\ Invocations(i) <= 1
                    /\ (IsTracked(i) /\ Due(i)) => Invocations(i) = 1
                    /\ ~IsTracked(i) => Invocations(i) = 0
            /\ \E n \in 0..Len(log') :
                    /\ \A k \in 1..n : log'[k][1] = "timer"
                    /\ SubSeq(log', n + 1, Len(log')) = ReadyCalls]_vars

\* An iteration woken by a ready descriptor has invoked a due timer's
\* callback and then the descriptor's.
C10_Witness ==
    /\ last.op = "dispatch"
    /\ Len(log) >= 2
    /\ log[1][1] = "timer"
    /\ log[Len(log)][1] = "fd"
    /\ running

\* The descriptor callbacks in the step's record of invocations.
FdCalls == SelectSeq(log', LAMBDA e : e[1] = "fd")

\* C11: when a timer callback or a descriptor callback calls stop() during an
\* iteration of run(), the callbacks of that iteration are still all invoked
\* (every tracked timer that was due, every ready descriptor, in the order
\* reported); run() then returns at the loop test without another wait, and
\* once it has returned nothing more is invoked.
C11_StopCompletesIteration ==
    [][/\ (pc = "dispatch" /\ running /\ ~running') =>
            /\ pc' = "wait"
            /\ FdCalls = ReadyCalls
            /\ \A i \in DOMAIN timers :
                    (IsTracked(i) /\ Due(i)) => Invocations(i) = 1
       /\ (pc = "wait" /\ ~running) =>
            /\ pc' = "returned"
            /\ log' = <<>>
            /\ now' = now
       /\ pc # "returned"]_vars

\* An iteration in which a timer's callback called stop() and a descriptor's
\* callback was invoked after it.
C11_Witness ==
    /\ last.op = "dispatch"
    /\ pc = "wait"
    /\ ~running
    /\ \E k, j \in DOMAIN log :
        /\ k < j
        /\ log[k][1] = "timer"
        /\ timers[log[k][2]].callback = "stop"
        /\ log[j][1] = "fd"
        /\ readers[log[j][2]] = "read"

\* The time to the earliest expiry among the tracked timers that are armed.
Deadline ==
    LET armed == {i \in DOMAIN timers :
                    IsTracked(i) /\ timers[i].expiry # None}
    IN  IF armed = {} THEN Infinity
        ELSE CHOOSE d \in {Remaining(i) : i \in armed} :
                \A i \in armed : d <= Remaining(i)

\* C12: a wait of run() with no descriptor watched and no timer tracked
\* raises the AssertionError at once (the clock has not moved, nothing was
\* invoked); with no descriptor watched and a finite deadline it sleeps at
\* least until the deadline and the iteration has no descriptor ready.
C12_NoEventSource ==
    [][(pc = "wait" /\ running /\ DOMAIN readers = {}) =>
            /\ (tracked = <<>>) =>
                    /\ pc' = "raised"
                    /\ last'.err = "AssertionError"
                    /\ now' = now
                    /\ log' = <<>>
            /\ (Deadline # Infinity) =>
                    /\ pc' = "dispatch"
                    /\ last'.err = ""
                    /\ now' >= now + Deadline
                    /\ ready' = <<>>
                    /\ log' = <<>>]_vars

\* run() has raised in an iteration after the first: its only timer fired
\* once and was dropped, and no descriptor is watched.
C12_Witness ==
    /\ pc = "raised"
    /\ last.err = "AssertionError"
    /\ tracked = <<>>
    /\ timers # <<>>
    /\ now > 0

\* What the callback of an entry of the record of invocations does.
KindOf(e) == IF e[1] = "timer" THEN timers[e[2]].callback ELSE readers[e[2]]

\* C14: an exception raised by a timer's or a descriptor's callback leaves
\* run(): the failing callback is the last one the iteration invokes, run()
\* ends with that exception, and after it (as after any exception of run())
\* there is no wait and no invocation.
C14_ExceptionPropagates ==
    [][/\ (pc = "dispatch") =>
            \A k \in DOMAIN log' :
                KindOf(log'[k]) = "raise" =>
                    /\ k = Len(log')
                    /\ pc' = "raised"
                    /\ last'.err = "Exception"
       /\ pc # "raised"]_vars

\* run() was left by the exception of a timer's callback while another
\* tracked timer, due as well, was never invoked.
C14_Witness ==
    /\ pc = "raised"
    /\ last.op = "dispatch"
    /\ last.err = "Exception"
    /\ Len(log) = 1
    /\ log[1][1] = "timer"
    /\ \E j \in DOMAIN timers :
        /\ j # log[1][2]
        /\ IsTracked(j)
        /\ Due(j)
        /\ timers[j].callback = "count"

\* The invocations of the pipe's callback that the step just taken added.
NewDeliveries ==
    SubSeq(io'.delivered, Len(io.delivered) + 1, Len(io'.delivered))

\* C13: a registration for a descriptor, by watch_for_reading or a framing
\* reader, with the descriptor or with an object that has fileno(), leaves
\* the mapping with that callback for the raw descriptor and the other
\* descriptors as they were; when the descriptor is ready the mapping's
\* callback is invoked once, with the raw descriptor, and every delivery of
\* the iteration is made by the callback registered last (none by a plain
\* watcher, which also leaves the pipe alone).
C13_OneCallbackPerDescriptor ==
    [][/\ (last'.op = "register") =>
            /\ last'.id = io.fd
            /\ readers' = [x \in DOMAIN readers \cup {io.fd} |->
                              IF x = io.fd THEN io'.registered
                              ELSE readers[x]]
       /\ (last'.op = "ready") =>
            /\ log' = << <<"fd", io.fd>> >>
            /\ \A k \in DOMAIN NewDeliveries :
                    NewDeliveries[k].by = io.registered
            /\ (io.registered = "read") =>
                    (io'.delivered = io.delivered /\ io'.pipe = io.pipe)]_vars

\* The read end was given to a block reader, then again, as an object with
\* fileno(), to a line reader, whose callback alone got the line read.
C13_Witness ==
    /\ last.op = "ready"
    /\ io.replaced = "block"
    /\ io.registered = "line"
    /\ io.filelike
    /\ log = << <<"fd", io.fd>> >>
    /\ Len(io.delivered) = 1
    /\ io.delivered[1].by = "line"

\* C15: a read that returns no byte is a fatal error for every framing
\* reader: the iteration ends with an exception.
C15_ZeroReadIsFatal ==
    [][(last'.op = "ready" /\ io.pipe = <<>>
            /\ io.registered \in FramingCallbacks) =>
            last'.err # ""]_vars

\* The data of the deliveries so far.
DeliveredData == [k \in DOMAIN io.delivered |-> io.delivered[k].data]

\* C17: what a line reader has delivered are the lines of the bytes read so
\* far, in order, each ending with its only newline, and what it holds back
\* is the rest, which has no newline: the lines followed by the pending
\* fragments are the bytes read, however they were split into blocks.
C17_LineReader ==
    (io.registered = "line") =>
        /\ Join(DeliveredData) \o Join(io.partial_line_fragments) = io.read
        /\ \A k \in DOMAIN io.delivered :
                LET line == io.delivered[k].data IN
                /\ line # <<>>
                /\ \A j \in DOMAIN line :
                        (line[j] = Newline) <=> (j = Len(line))
        /\ Index(Join(io.partial_line_fragments), <<Newline>>) = 0

\* Two lines were delivered in one invocation, the first of them begun in
\* an earlier block.
C17_Witness ==
    /\ io.registered = "line"
    /\ last.op = "ready"
    /\ last.val = 2
    /\ Len(io.delivered) = 2
    /\ io.read = <<PACKET_DELIMITER[1], Newline, Newline>>
    /\ io.delivered[1].data = <<PACKET_DELIMITER[1], Newline>>
    /\ io.delivered[2].data = <<Newline>>

\* The bytes which the step just taken read from the pipe.
NewBlock == SubSeq(io'.read, Len(io.read) + 1, Len(io'.read))

\* C16: each invocation of a push_back_reader's callback gets the fragments
\* pushed back during the invocation before it, joined in the order pushed,
\* followed by the block just read, and nothing else: a fragment is
\* delivered at the invocation after the one that pushed it and only there,
\* and a block pushed back whole comes back at the head of the next data.
C16_PushBack ==
    [][(last'.op = "ready" /\ io.registered = "push_back") =>
            /\ Len(NewDeliveries) = 1
            /\ NewBlock # <<>>
            /\ NewDeliveries[1].data = Join(io.pushed) \o NewBlock
            /\ io'.pushed_back = io'.pushed]_vars

\* The callback got 'a', pushed back 'b' then 'a', and got 'bab' when the
\* block 'b' was read.
C16_Witness ==
    /\ io.registered = "push_back"
    /\ last.op = "ready"
    /\ io.read = <<97, 98>>
    /\ Len(io.delivered) = 2
    /\ io.delivered[1].data = <<97>>
    /\ io.delivered[2].data = <<98, 97, 98>>

\* The packets whose last byte has been read.
Arrived == {k \in DOMAIN io.sent : io.sent[k].end <= Len(io.read)}

\* C18: the payloads a PacketReader has delivered are those of the packets
\* written whose last byte it has read, in the order written, once each,
\* whatever noise (free of delimiters) precedes each packet and wherever the
\* blocks read end.
C18_PacketsDelivered ==
    (io.registered = "packet") =>
        /\ last.err = ""
        /\ DeliveredData = [k \in Arrived |-> io.sent[k].payload]

\* Two packets came through, each after noise ending with the first byte of
\* the delimiter, the second with an empty payload.
C18_Witness ==
    /\ io.registered = "packet"
    /\ Len(io.delivered) = 2
    /\ io.sent[1].noise = 2
    /\ io.sent[2].noise = 1
    /\ io.delivered[1].data = <<PACKET_DELIMITER[2], PACKET_DELIMITER[1]>>
    /\ io.delivered[2].data = <<>>
    /\ io.read[2] = PACKET_DELIMITER[1]
    /\ io.read[8] = PACKET_DELIMITER[1]

\* The noise bytes written before the delimiter of packet k, all packets
\* before it included.
RECURSIVE NoiseBefore(_)
NoiseBefore(k) ==
    IF k = 0 THEN 0 ELSE io.sent[k].noise + NoiseBefore(k - 1)

\* C19: a PacketReader has an attribute dropped_bytes, and at the k-th
\* invocation of the packet callback the bytes it has counted as dropped are
\* the noise bytes written before the k-th packet's delimiter.
C19_DroppedBytes ==
    \A k \in DOMAIN io.delivered :
        (io.delivered[k].by = "packet") =>
            /\ "dropped_bytes" \in PacketReader_attributes
            /\ io.delivered[k].logged = NoiseBefore(k)

\* C20: with a packet in progress, the data handed to new_block (what was
\* pushed back, then the block read) begins with the length byte L: if
\* fewer than L bytes are there, nothing is delivered and all of them are
\* pushed back; otherwise the first delivery is the L - 1 bytes after the
\* length byte, delimiters among them or not.
C20_PayloadByLength ==
    [][(last'.op = "ready" /\ io.registered = "packet" /\ io.in_packet) =>
            LET data == Join(io.pushed_back) \o NewBlock IN
            IF Len(data) < data[1]
            THEN /\ NewDeliveries = <<>>
                 /\ io'.in_packet
                 /\ Join(io'.pushed_back) = data
            ELSE /\ NewDeliveries # <<>>
                 /\ NewDeliveries[1].data = SubSeq(data, 2, data[1])]_vars

\* A payload that is the delimiter was delivered; its packet took three
\* bytes after the delimiter and no block has more than MaxBlock.
C20_Witness ==
    /\ io.registered = "packet"
    /\ last.op = "ready"
    /\ last.val = 1
    /\ Len(io.delivered) = 1
    /\ io.delivered[1].data = PACKET_DELIMITER
    /\ Len(io.pushed_back) = 0
    /\ ~io.in_packet

\* C21: whatever bytes precede a packet's delimiter, the packet is delivered
\* with its payload once its last byte has been read, and so is every packet
\* after it, and decoding does not fail.
C21_GarbageDiscarded ==
    (io.registered = "packet") =>
        /\ last.err = ""
        /\ \A k \in Arrived :
                /\ k \in DOMAIN io.delivered
                /\ io.delivered[k].data = io.sent[k].payload

\* C21, amended: the same for a packet which, like each packet before it,
\* is preceded by bytes without a delimiter among them.
C21_CleanGarbageDiscarded ==
    (io.registered = "packet") =>
        \A k \in Arrived :
            (\A j \in 1..k : io.sent[j].clean) =>
                /\ last.err = ""
                /\ k \in DOMAIN io.delivered
                /\ io.delivered[k].data = io.sent[k].payload

\* Two packets were delivered, the first after the delimiter's two bytes in
\* the wrong order, the second after the byte 1.
C21_Witness ==
    /\ io.registered = "packet"
    /\ Len(io.sent) = 2
    /\ Len(io.delivered) = 2
    /\ Len(io.read) = io.sent[2].end
    /\ io.sent[1].noise = 2 /\ io.sent[2].noise = 1
    /\ io.read[1] = PACKET_DELIMITER[2]
    /\ io.read[2] = PACKET_DELIMITER[1]
    /\ io.read[io.sent[1].end + 1] = 1
    /\ io.delivered[1].data = <<PACKET_DELIMITER[1]>>
    /\ io.delivered[2].data = <<>>

\* C22: when the callback of a due repeating timer advances the clock, run
\* leaves the expiry at the first multiple of the interval after the old
\* expiry that is later than the clock read after the callback returned.
C22_ExpiryFromClockAfterCallback ==
    [][\A i \in DOMAIN timers :
          (/\ Did("run", i)
           /\ timers[i].callback = "slow"
           /\ timers[i].repeat
           /\ timers[i].expiry # None
           /\ now >= timers[i].expiry) =>
              /\ timers'[i].expiry = timers[i].expiry
                    + ((now' - timers[i].expiry) \div timers[i].interval + 1)
                      * timers[i].interval
              /\ timers'[i].expiry > now']_vars

\* C22, amended: the expiry is worked out from the clock read before the
\* callback is called; it is later than that reading, and the callback is
\* called once.
C22_ExpiryFromClockBeforeCallback ==
    [][\A i \in DOMAIN timers :
          (/\ Did("run", i)
           /\ timers[i].callback = "slow"
           /\ timers[i].repeat
           /\ timers[i].expiry # None
           /\ now >= timers[i].expiry) =>
              /\ timers'[i].expiry = timers[i].expiry
                    + ((now - timers[i].expiry) \div timers[i].interval + 1)
                      * timers[i].interval
              /\ timers'[i].expiry > now
              /\ now' = now + SlowBy
              /\ Invocations(i) = 1
              /\ last'.ret = TRUE]_vars

\* A repeating timer whose callback took until after its next expiry: run
\* has called it once and the timer is due again.
C22_Witness ==
    /\ last.op = "run"
    /\ last.id \in DOMAIN timers
    /\ timers[last.id].callback = "slow"
    /\ timers[last.id].repeat
    /\ log = <<<<"timer", last.id>>>>
    /\ timers[last.id].expiry # None
    /\ timers[last.id].expiry < now

\* C23: a pass that fires a tracked repeating timer whose callback takes at
\* least one interval calls it once and leaves it tracked and due again, so
\* that the manager's sleep time right after the pass is 0 and the next pass,
\* being a pass with the timer due, calls it once more.
C23_OverdueAfterLongCallback ==
    [][\A i \in DOMAIN timers :
          (/\ last'.op = "manager.run"
           /\ IsTracked(i)
           /\ Due(i)
           /\ timers[i].repeat
           /\ timers[i].callback = "slow"
           /\ timers[i].interval <= SlowBy) =>
              /\ Invocations(i) = 1
              /\ IsTrackedNext(i)
              /\ timers'[i].expiry # None
              /\ timers'[i].expiry <= now'
              /\ TimerManager_sleep_time(WorldNext) = 0]_vars

\* A pass has just called the long callback of a tracked repeating timer,
\* once, and the timer's new expiry is already in the past.
C23_Witness ==
    /\ last.op = "manager.run"
    /\ \E i \in DOMAIN timers :
          /\ IsTracked(i)
          /\ timers[i].repeat
          /\ timers[i].callback = "slow"
          /\ log = <<<<"timer", i>>>>
          /\ timers[i].expiry # None
          /\ timers[i].expiry < now
          /\ TimerManager_sleep_time(World) = 0

\* C24: right after a pass of the manager every timer it tracks is armed.
C24_TrackedAreArmed ==
    (last.op = "manager.run") =>
        \A k \in DOMAIN tracked : timers[tracked[k]].expiry # None

C26_DispatchToRegisteredAtWait ==
    [][(pc = "dispatch" /\ last'.op = "dispatch") =>
          \A k \in DOMAIN log' :
              (log'[k][1] = "late") => readers[log'[k][2]] = "late"]_vars

\* C27: the timeout of each wait of run() is the smallest time remaining
\* among the timers that are tracked and armed when the wait begins, as the
\* callbacks of the iteration before left them, or none when there is no
\* such timer; a wait that reports nothing ready lasted that long.
C27_WaitBoundIsLive ==
    [][(pc = "wait" /\ last'.op = "wait") =>
          /\ last'.val = Deadline
          /\ (ready' = <<>> /\ last'.err = "") =>
                (Deadline # Infinity /\ now' - now >= Deadline)]_vars

\* A wait whose timeout was that of a timer which a callback added, every
\* other timer being due later, cancelled or spent.
C27_Witness ==
    /\ last.op = "wait"
    /\ last.val = AddedTimeout
    /\ \E j \in DOMAIN timers :
          /\ IsTracked(j)
          /\ timers[j].hist = "fresh"
          /\ timers[j].t0 > 0
          /\ timers[j].expiry = timers[j].t0 + AddedTimeout
          /\ now = timers[j].expiry
          /\ \A i \in DOMAIN timers \ {j} :
                timers[i].expiry = None \/ timers[i].expiry > timers[j].expiry
          /\ \E i \in DOMAIN timers : timers[i].hist = "cancelled"

\* C28: a pass run after the clock was advanced by exactly the manager's
\* sleep time, a finite one, calls at least one callback: it calls, once
\* each, the timers whose expiry is the instant reached and no other, so
\* that there is one pass for each distinct expiry instant.
C28_NoIdleWakeUp ==
    [][(/\ last'.op = "manager.run"
        /\ Deadline # Infinity
        /\ now' - now = Deadline) =>
          /\ log' # <<>>
          /\ \A i \in DOMAIN timers :
                Invocations(i) =
                    IF /\ IsTracked(i)
                       /\ timers[i].expiry # None
                       /\ timers[i].expiry <= now'
                    THEN 1 ELSE 0
          /\ \A i \in DOMAIN timers :
                Invocations(i) = 1 => Remaining(i) = Deadline
          /\ TimerManager_sleep_time(WorldNext) > 0]_vars

\* The clock was advanced by a sleep time of more than one unit and the pass
\* then run called two timers that expired at that same instant.
C28_Witness ==
    /\ last.op = "manager.run"
    /\ last.val > 1
    /\ Len(log) = 2
    /\ log[1] # log[2]
    /\ \A k \in DOMAIN log : timers[log[k][2]].calls >= 1

\* The counts which logging.info reported during the step.
NewDropped == SubSeq(io'.dropped, Len(io.dropped) + 1, Len(io'.dropped))

\* C29: a PacketReader that is looking for a delimiter and finds none in the
\* data at hand drops all of it but a last byte equal to the delimiter's first
\* byte, which alone it pushes back; when it finds one, with what was pushed
\* back in front, it drops the bytes before it only and is in a packet that
\* begins with the bytes after it.
C29_SeekingDelimiter ==
    [][(last'.op = "ready" /\ io.registered = "packet" /\ ~io.in_packet) =>
          LET data == Join(io.pushed_back) \o NewBlock
              n == Len(data)
              found == {q \in 1..(n - 1) :
                           data[q] = PACKET_DELIMITER[1]
                           /\ data[q + 1] = PACKET_DELIMITER[2]}
              p == CHOOSE q \in found : \A x \in found : q <= x
              rest == SubSeq(data, p + 2, n)
              kept == IF data[n] = PACKET_DELIMITER[1]
                      THEN <<PACKET_DELIMITER[1]>> ELSE <<>>
          IN  IF found = {}
              THEN /\ NewDeliveries = <<>>
                   /\ ~io'.in_packet
                   /\ Join(io'.pushed_back) = kept
                   /\ NewDropped = <<n - Len(kept)>>
              ELSE /\ (p > 1) => (NewDropped # <<>> /\ NewDropped[1] = p - 1)
                   /\ (p = 1 /\ NewDropped # <<>>) => NewDeliveries # <<>>
                   /\ IF rest = <<>> \/ Len(rest) < rest[1]
                      THEN /\ io'.in_packet
                           /\ Join(io'.pushed_back) = rest
                           /\ NewDeliveries = <<>>
                      ELSE /\ NewDeliveries # <<>>
                           /\ NewDeliveries[1].data
                                  = SubSeq(rest, 2, rest[1])]_vars

\* The delimiter's first byte came alone in one read and was pushed back, its
\* second byte came in the next read, and the reader is in a packet.
C29_Witness ==
    /\ io.registered = "packet"
    /\ last.op = "ready"
    /\ io.read = PACKET_DELIMITER
    /\ io.dropped = <<0>>
    /\ io.in_packet
    /\ io.pushed_back = <<>>

\* C30: a PacketReader in a packet of length byte L pushes everything back,
\* calls nothing and stays in the packet while it has fewer than L bytes;
\* with L bytes or more it calls the callback with the L - 1 bytes after the
\* length byte and goes on, in the same invocation, looking for a delimiter
\* in the bytes after the packet, so that a complete packet found there is
\* delivered next.
C30_InPacket ==
    [][(last'.op = "ready" /\ io.registered = "packet" /\ io.in_packet) =>
          LET data == Join(io.pushed_back) \o NewBlock
              L == data[1]
              rest == SubSeq(data, L + 1, Len(data))
          IN  IF Len(data) < L
              THEN /\ NewDeliveries = <<>>
                   /\ io'.in_packet
                   /\ Join(io'.pushed_back) = data
              ELSE /\ NewDeliveries # <<>>
                   /\ Len(NewDeliveries[1].data) = L - 1
                   /\ \A x \in 1..(L - 1) :
                         NewDeliveries[1].data[x] = data[x + 1]
                   /\ (rest = <<>>) =>
                         /\ Len(NewDeliveries) = 1
                         /\ ~io'.in_packet
                         /\ io'.pushed_back = <<>>
                   /\ (rest # <<>> /\ Index(rest, PACKET_DELIMITER) = 0) =>
                         /\ Len(NewDeliveries) = 1
                         /\ ~io'.in_packet
                         /\ NewDropped # <<>>
                   /\ (/\ Len(rest) >= 3
                       /\ SubSeq(rest, 1, 2) = PACKET_DELIMITER
                       /\ Len(rest) >= 2 + rest[3]) =>
                         /\ Len(NewDeliveries) >= 2
                         /\ NewDeliveries[2].data
                                = SubSeq(rest, 4, 2 + rest[3])]_vars

\* One invocation, entered in a packet, delivered the one-byte payload of
\* that packet and then the empty payload of the packet after it.
C30_Witness ==
    /\ io.registered = "packet"
    /\ last.op = "ready"
    /\ last.val = 2
    /\ Len(io.delivered) = 2
    /\ io.delivered[1].data = <<PACKET_DELIMITER[1]>>
    /\ io.delivered[2].data = <<>>
    /\ io.dropped = <<>>
    /\ Len(io.read) = 7
    /\ ~io.in_packet
    /\ io.pushed_back = <<>>

\* The clock right after the callback of timer i returned, in a pass of the
\* tuple-based manager: each slow callback called up to then took SlowBy.
ClockAfter(i) ==
    LET k == CHOOSE x \in DOMAIN log' : log'[x] = <<"timer", i>>
    IN  now + SlowBy * Cardinality({x \in 1..k :
                                      timers[log'[x][2]].callback = "slow"})

\* The parts of C31 which both statements of it share: no callback is called
\* twice, the timers called are tracked ones, a one-shot timer is dropped if
\* and only if it was called, and the others stay in their order.
TupleRunFrame ==
    /\ \A i \in DOMAIN timers' : Invocations(i) <= 1
    /\ \A i \in DOMAIN timers :
          /\ Invocations(i) = 1 => IsTracked(i)
          /\ (IsTracked(i) /\ timers[i].expiry <= now) => Invocations(i) = 1
          /\ IsTracked(i) =>
                (IsTrackedNext(i) <=> (timers[i].repeat \/ Invocations(i) = 0))
          /\ Invocations(i) = 0 => timers'[i] = timers[i]
    /\ \A a, b \in DOMAIN tracked' :
          (a < b) => \A x, y \in DOMAIN tracked :
                        (tracked[x] = tracked'[a] /\ tracked[y] = tracked'[b])
                            => x < y

\* C31: a pass of the tuple-based manager calls no callback twice, leaves the
\* next expiry of every repeating timer later than the clock at the end of
\* the pass and, for the timers it called, a whole number of intervals after
\* the expiry before, and removes the one-shot timers it called and nothing
\* else.
C31_TupleRun ==
    [][(last'.op = "tuple.run") =>
          /\ TupleRunFrame
          /\ \A k \in DOMAIN tracked' :
                timers'[tracked'[k]].repeat
                    => timers'[tracked'[k]].expiry > now'
          /\ \A i \in DOMAIN timers :
                (Invocations(i) = 1 /\ timers[i].repeat) =>
                    /\ timers'[i].expiry > timers[i].expiry
                    /\ (timers'[i].expiry - timers[i].expiry)
                            % timers[i].interval = 0]_vars

\* C31, amended: the next expiry of each repeating timer called is the first
\* whole number of intervals after the expiry before that is later than the
\* clock read right after its own callback returned.
C31_TupleRunOwnCallback ==
    [][(last'.op = "tuple.run") =>
          /\ TupleRunFrame
          /\ \A i \in DOMAIN timers :
                (Invocations(i) = 1 /\ timers[i].repeat) =>
                    /\ timers'[i].expiry = timers[i].expiry
                          + ((ClockAfter(i) - timers[i].expiry)
                                 \div timers[i].interval + 1)
                            * timers[i].interval
                    /\ timers'[i].expiry > ClockAfter(i)
                    /\ (ClockAfter(i) = now') => timers'[i].expiry > now']_vars

\* A pass called, once, a repeating timer of interval 1 added at 0 whose
\* callback took the clock from 1 to 1 + SlowBy: its next expiry is one
\* interval after the clock.
C31_Witness ==
    /\ last.op = "tuple.run"
    /\ \E i \in DOMAIN timers :
          /\ log = <<<<"timer", i>>>>
          /\ IsTracked(i)
          /\ timers[i].repeat
          /\ timers[i].callback = "slow"
          /\ timers[i].interval = 1
          /\ now = 1 + SlowBy
          /\ timers[i].expiry = now + 1

\* C32: reset() on the handle of a timer which its manager no longer tracks
\* arms the Timer object and leaves the manager as it was: the timer is not
\* tracked again by any operation, the manager's sleep time is that of the
\* tracked timers alone, and no pass calls its callback.
C32_ResetOfDropped ==
    [][/\ \A i \in DOMAIN timers :
             /\ (Did("reset", i) /\ ~IsTracked(i)) =>
                    /\ timers'[i].expiry = now + timers[i].interval
                    /\ tracked' = tracked
                    /\ log' = <<>>
             /\ ~IsTracked(i) => ~IsTrackedNext(i)
             /\ (last'.op = "manager.run" /\ ~IsTracked(i)) =>
                    (Invocations(i) = 0 /\ timers'[i] = timers[i])
       /\ (last'.op = "manager.sleep_time") => last'.val = Deadline]_vars

\* A pass has just gone by a timer that is due: the manager had dropped it
\* and its handle was reset afterwards; the manager tracks nothing and
\* would sleep for ever.
C32_Witness ==
    /\ last.op = "manager.run"
    /\ log = <<>>
    /\ tracked = <<>>
    /\ TimerManager_sleep_time(World) = Infinity
    /\ \E i \in DOMAIN timers :
          /\ timers[i].expiry # None
          /\ timers[i].expiry <= now

\* The steps of run() around the death of the last timer, in a loop that
\* watches no descriptor: an iteration drops the timers that fired without
\* repeating or were cancelled and keeps the others; when it leaves no armed
\* timer and stop() was not called, the next step of run() is the
\* AssertionError, raised at once, and nothing follows it: run() does not
\* return and does not wait.
LastTimerDiesSteps ==
    /\ (pc = "dispatch") =>
         /\ \A i \in DOMAIN timers :
               IsTracked(i) =>
                  /\ IsTrackedNext(i) <=> timers'[i].expiry # None
                  /\ (Due(i) /\ timers[i].callback = "cancel")
                         => ~IsTrackedNext(i)
                  /\ (Due(i) /\ ~timers[i].repeat
                         /\ timers[i].callback # "reset")
                         => ~IsTrackedNext(i)
         /\ pc' = "wait"
    /\ (/\ pc = "wait" /\ running /\ DOMAIN readers = {}
        /\ \A k \in DOMAIN tracked : timers[tracked[k]].expiry = None) =>
         /\ last'.op = "wait"
         /\ last'.err = "AssertionError"
         /\ pc' = "raised"
         /\ now' = now
         /\ log' = <<>>
    /\ pc # "raised"

C34_ZeroLength ==
    [][(last'.op = "ready" /\ io.registered = "packet") =>
          LET data == Join(io.pushed_back) \o NewBlock
              n == Len(data)
              found == {q \in 1..(n - 1) :
                           data[q] = PACKET_DELIMITER[1]
                           /\ data[q + 1] = PACKET_DELIMITER[2]}
              p == CHOOSE q \in found : \A x \in found : q <= x
              first == IF io.in_packet THEN data[1] = 0
                       ELSE found # {} /\ p + 2 <= n /\ data[p + 2] = 0
              zeros == {q \in 1..n :
                           /\ data[q] = 0
                           /\ \/ q = 1 /\ io.in_packet
                              \/ /\ q >= 3
                                 /\ data[q - 2] = PACKET_DELIMITER[1]
                                 /\ data[q - 1] = PACKET_DELIMITER[2]}
          IN  /\ first =>
                    /\ last'.err = "AssertionError"
                    /\ NewDeliveries = <<>>
                    /\ NewDropped = IF ~io.in_packet /\ p > 1
                                    THEN <<p - 1>> ELSE <<>>
              /\ (last'.err # "") =>
                    /\ last'.err = "AssertionError"
                    /\ zeros # {}
                    /\ pc' = "raised"
                    /\ io'.in_packet
                    /\ io'.pushed_back = <<>>
              /\ (last'.err = "") => pc' = pc]_vars

\* run() was ended by the AssertionError of a PacketReader that had
\* delivered one packet and then met a delimiter followed by 0.
C34_Witness ==
    /\ io.registered = "packet"
    /\ pc = "raised"
    /\ last.op = "ready"
    /\ last.err = "AssertionError"
    /\ io.read = PACKET_DELIMITER \o <<1>> \o PACKET_DELIMITER \o <<0>>
    /\ Len(io.delivered) = 1
    /\ io.in_packet
    /\ io.pushed_back = <<>>

\* C35: between the invocations of a PacketReader, when it is not in a
\* packet nothing is pushed back or only the delimiter's first byte is, and
\* when it is in a packet nothing is pushed back or only one fragment is,
\* which begins with the packet's length byte and has fewer bytes than it
\* says.
C35_QueueConsistent ==
    (io.registered = "packet") =>
        \/ io.pushed_back = <<>>
        \/ /\ ~io.in_packet
           /\ io.pushed_back = <<<<PACKET_DELIMITER[1]>>>>
        \/ /\ io.in_packet
           /\ Len(io.pushed_back) = 1
           /\ Len(io.pushed_back[1]) >= 1
           /\ Len(io.pushed_back[1]) < io.pushed_back[1][1]

\* The reader is in a packet of three bytes and holds its first two; before
\* that it held the first byte of that packet's delimiter, which came last
\* in a read.
C35_Witness ==
    /\ io.registered = "packet"
    /\ last.op = "ready"
    /\ io.in_packet
    /\ io.pushed_back = <<<<3, PACKET_DELIMITER[1]>>>>
    /\ io.dropped = <<0>>
    /\ io.delivered = <<>>

\* Whether the pipe's descriptor is among those reported ready.
PipeReady == \E k \in DOMAIN ready : ready[k] = io.fd

\* C36: what the callback of a push_back_reader pushed back is given to it
\* again only by the invocation for the next readiness of its descriptor, in
\* front of the block read then: every step that is not such an invocation,
\* be it an iteration that dispatches timers or another descriptor, leaves
\* the fragments where they are and delivers nothing.
C36_HeldUntilReadable ==
    [][(io.registered = "push_back" /\ last'.op # "register") =>
          IF pc = "dispatch" /\ PipeReady
          THEN /\ Len(NewDeliveries) = 1
               /\ NewDeliveries[1].data = Join(io.pushed_back) \o NewBlock
          ELSE /\ io'.pushed_back = io.pushed_back
               /\ io'.delivered = io.delivered
               /\ io'.read = io.read]_vars

\* An iteration has just called the timer and the callback of the other
\* descriptor while the push_back_reader, called once before, holds a
\* fragment and its pipe is empty.
C36_Witness ==
    /\ io.registered = "push_back"
    /\ last.op = "dispatch"
    /\ \E k \in DOMAIN log : log[k][1] = "timer"
    /\ \E k \in DOMAIN log : log[k][1] = "fd" /\ log[k][2] # io.fd
    /\ \A k \in DOMAIN log : log[k] # <<"fd", io.fd>>
    /\ io.pushed_back # <<>>
    /\ Len(io.delivered) = 1
    /\ io.pipe = <<>>

====
